---- MODULE Spec2Model ----
(***************************************************************************)
(* A model of the twisty-puzzle engines of the `twisty` crate: the         *)
(* breadth-first state-space enumerator (cubesearch.rs), the iterative     *)
(* deepening solver (idasearch.rs), the bounded BFS heuristic cache        *)
(* (idasearch/heuristic_helpers.rs), the scramble generator (scrambles.rs) *)
(* and the puzzles they are run on.                                        *)
(*                                                                         *)
(* A puzzle is a record [kind, edges, max_fuel, red].  `kind` names the    *)
(* Rust type.  `edges` and `max_fuel` are only read for kind "Toy", an     *)
(* arbitrary small implementation of the State / Solvable traits whose     *)
(* positions are numbers and whose moves are the edges of a graph.  `red`  *)
(* is "own" for the type's own is_redundant and "default" for the trait's  *)
(* default body.                                                           *)
(***************************************************************************)
EXTENDS Integers, Sequences, FiniteSets, TLC

VARIABLES
    \* enumerate_state_space_started (cubesearch.rs)
    e_pz, starts, to_process, iter_pos, next_stage, all_seen, counts,
    next_distance, this_stage_new_configs, e_pc,
    e_forder,   \* the order in which a frontier is processed
    e_norder,   \* the order in which a state's neighbours are emitted
    expanded,   \* history: the states whose neighbours were emitted, in order
    \* solve (idasearch.rs) and random_scramble (scrambles.rs)
    puzzle,     \* the puzzle type S
    heuristic,  \* the heuristic handed to solve
    cache_depth,\* the max_depth handed to bounded_cache, when that built it
    input,      \* the state handed to solve
    origin,     \* how `input` was made: "start", "twist" or "random_state"
    fuel,       \* the loop variable of solve
    passes,     \* the budgets of the dfs passes run so far
    result,     \* what solve returned
    scramble,   \* what random_scramble returned
    rng,        \* the generator handed to random_scramble
    pc,
    \* a move applied and then undone by its reverse (moves.rs: CanReverse)
    m_pz,       \* the puzzle type
    m_s,        \* the state the move is applied to
    m_move,     \* the move
    m_after,    \* apply(m_s, m_move)
    m_back,     \* apply(m_after, m_move.reverse())
    m_depth,    \* how many moves led from start() to m_s
    m_pc,
    \* one call of a function of random_helpers
    r_op,       \* the function called
    r_arg,      \* its arguments and the outcomes of its random draws
    r_ret,      \* what it returned
    r_pc,
    \* bulk_scramble (scrambles.rs)
    b_pz,       \* the puzzle type State
    b_h,        \* the heuristic h
    b_n,        \* num_scrambles
    b_states,   \* the drawn states
    b_task,     \* where the closure of the parallel map is, per state
    b_len,      \* `out` of each closure call
    b_c,        \* `c` of each closure call
    completed,  \* the AtomicUsize
    b_stdout,   \* the progress lines printed, as the c each reports
    b_ret,      \* what bulk_scramble returned
    b_pc,
    \* the calls of dfs inside solve (idasearch.rs), one step at a time
    d_stack,    \* the dfs calls in progress, the innermost last
    d_moves,    \* moves_so_far (solve's `solution`)
    d_ev,       \* history: what the last step of dfs did
    d_evals     \* history: the states the heuristic was evaluated on

enumVars == <<e_pz, starts, to_process, iter_pos, next_stage, all_seen,
              counts, next_distance, this_stage_new_configs, e_pc,
              e_forder, e_norder, expanded>>

solveVars == <<puzzle, heuristic, cache_depth, input, origin, fuel, passes, result, scramble, rng, pc>>

moveVars == <<m_pz, m_s, m_move, m_after, m_back, m_depth, m_pc>>

randVars == <<r_op, r_arg, r_ret, r_pc>>

bulkVars == <<b_pz, b_h, b_n, b_states, b_task, b_len, b_c, completed, b_stdout,
              b_ret, b_pc>>

dfsVars == <<d_stack, d_moves, d_ev, d_evals>>

vars == <<enumVars, solveVars, moveVars, randVars, bulkVars, dfsVars>>

----------------------------------------------------------------------------
(* Bounds of the model *)

\* a Toy puzzle has at most this many moves (edges of its graph)
ToyMaxEdges == 3
\* longest list of start states handed to the enumerator
MaxStarts == 2
\* largest max_fuel() of a Toy puzzle
ToyMaxFuel == 2
\* largest value a closure heuristic returns
MaxEstimate == 1
\* largest max_depth handed to bounded_cache
MaxCacheDepth == 2
\* states of Cuboid2x2x3 are taken at most this many moves from solved
NearDepth == 2
\* states of DinoCube are taken at most this many moves from solved_state,
\* and its bounded cache is built at most this deep
DinoNearDepth == 1
\* states of DinoCube are also taken at most this many moves from
\* solved_mirrored
DinoMirrorDepth == 0
\* a move is applied to states at most this many moves from start()
MoveWalkDepth == 2

\* the longest permutation handed to parity and with_parity
MaxPermLen == 5

\* the greatest len handed to flips_with_parity
MaxFlips == 5

\* uniq_key is called on the Bandaged3x3x3with1x2x3 states at most this many
\* moves from solved
BandagedNearDepth == 3

\* the greatest num_scrambles handed to bulk_scramble
MaxScrambles == 3

\* the heuristic of Cuboid3x3x4 is evaluated on the states at most this many
\* moves from solved
CuboidNearDepth == 3

\* the layer caches of Cuboid3x3x4 are unfolded this many passes before a state
\* far from solved is asked of them
CuboidLayerPasses == 4

\* and this few, when the later passes are to decide near solved as well
CuboidFewPasses == 1

\* the RediCube is visited at most this many moves from solved
RediNearDepth == 2

\* the deepest cache handed to RediHeuristic
RediCacheDepth == 1

----------------------------------------------------------------------------
(* Generic helpers *)

Min(S) == CHOOSE x \in S : \A y \in S : x <= y

RECURSIVE SortedSeq(_)
SortedSeq(S) == IF S = {} THEN <<>>
                ELSE <<Min(S)>> \o SortedSeq(S \ {Min(S)})

SeqsUpTo(S, n) == UNION {[1..k -> S] : k \in 0..n}

Range(f) == {f[i] : i \in DOMAIN f}

----------------------------------------------------------------------------
(* Toy puzzles: positions 0..ToyNodes-1, a move leads along an edge *)

ToyPositions == {0, 1, 2}

ToyGraphs == {E \in SUBSET (ToyPositions \X ToyPositions) :
                 Cardinality(E) <= ToyMaxEdges}

Toy(E, f) == [kind |-> "Toy", edges |-> E, max_fuel |-> f, red |-> "default"]

\* a Toy implementation of State whose should_count_as_config is
\* overridden: it answers true on the positions of C
ToyCounting(E, C) ==
    [kind |-> "Toy", edges |-> E, max_fuel |-> 0, red |-> "default", counted |-> C]

Puzzle(kind) == [kind |-> kind, edges |-> {}, max_fuel |-> 0, red |-> "own"]

\* Floppy1xMxN<H, W>
Floppy1xMxN(H, W) ==
    [kind |-> "Floppy1xMxN", edges |-> {}, max_fuel |-> 0, red |-> "own",
     H |-> H, W |-> W]

\* the moves a Toy position offers: one per outgoing edge, named by its target
Toy_available_moves(pz, s) == SortedSeq({e[2] : e \in {d \in pz.edges : d[1] = s}})

----------------------------------------------------------------------------
(* orientations.rs *)

\* CornerOrientation::cw
CornerOrientation_cw(o) ==
    CASE o = "Normal" -> "CW"
      [] o = "CW" -> "CCW"
      [] o = "CCW" -> "Normal"

\* CornerOrientation::ccw
CornerOrientation_ccw(o) ==
    CASE o = "Normal" -> "CCW"
      [] o = "CCW" -> "CW"
      [] o = "CW" -> "Normal"

\* EdgeOrientation::flipped
flipped(o) == IF o = "Normal" THEN "Flipped" ELSE "Normal"

----------------------------------------------------------------------------
(* permutation_helpers.rs *)

\* cycle_cw: the values of a, b and c after the call
cycle_cw(a, b, c) == <<c, a, b>>

----------------------------------------------------------------------------
(* random_helpers/permutations.rs and random_helpers.rs *)
(* A Permutation is the sequence of its Vec: p[i + 1] is self.0[i]. *)

\* the outcomes of (0..len).collect() followed by shuffle(rng)
any_permutation(len) ==
    {p \in [1..len -> 0..(len - 1)] : \A i, j \in 1..len : p[i] = p[j] => i = j}

\* the inner while loop of parity: walks the cycle from j, marking it
RECURSIVE parity_while(_, _, _, _)
parity_while(p, j, seen, cycle_length) ==
    IF j \in seen THEN [seen |-> seen, cycle_length |-> cycle_length]
    ELSE parity_while(p, p[j + 1], seen \cup {j}, cycle_length + 1)

\* the for loop of parity, from index i on
RECURSIVE parity_for(_, _, _, _)
parity_for(p, i, seen, running_odd) ==
    IF i >= Len(p) THEN running_odd
    ELSE IF i \in seen THEN parity_for(p, i + 1, seen, running_odd)
    ELSE LET w == parity_while(p, p[i + 1], seen, 1)
         IN  parity_for(p, i + 1, w.seen,
                        IF w.cycle_length % 2 = 1 THEN ~running_odd ELSE running_odd)

\* parity with its two answers exchanged
parity_flipped(p) == IF parity_for(p, 0, {}, FALSE) THEN "Even" ELSE "Odd"

\* Permutation::parity
parity(p) == IF parity_for(p, 0, {}, FALSE) THEN "Odd" ELSE "Even"

\* Permutation::from_len followed by swap.0.swap(0, 1)
swap_0_1(len) == [i \in 1..len |-> IF i = 1 THEN 1 ELSE IF i = 2 THEN 0 ELSE i - 1]

\* fn compose
compose(a, b) == [i \in 1..Len(a) |-> a[b[i] + 1]]

\* with_parity without the correcting swap
with_parity_unfixed(out, desired) == out

\* a with_parity that answers a shuffle of the wrong parity with one fixed
\* permutation of the desired parity
with_parity_fixed(out, desired) ==
    IF parity(out) = desired THEN out
    ELSE IF desired = "Odd" THEN swap_0_1(Len(out))
    ELSE [i \in 1..Len(out) |-> i - 1]

\* with_parity, given the outcome `out` of the shuffle
with_parity(out, desired) ==
    IF desired # parity(out) THEN compose(swap_0_1(Len(out)), out) ELSE out

\* shuffle_with_parity, given the outcome `out` of the shuffle in with_parity
shuffle_with_parity(out, arr, desired) ==
    LET permutation == with_parity(out, desired)
    IN  [i \in 1..Len(arr) |-> arr[permutation[i] + 1]]

\* shuffle_any, given the outcome p of any_permutation
shuffle_any(p, arr) ==
    [shuffled |-> [i \in 1..Len(arr) |-> arr[p[i] + 1]], parity |-> parity(p)]

\* flips_with_parity whose last orientation is not chosen by the parity
flips_last_normal(drawn, desired) == Append(drawn, "Normal")

\* flips_with_parity, given the outcomes `drawn` of the len - 1 random draws
flips_with_parity(drawn, desired) ==
    LET flippedCount == Cardinality({i \in 1..Len(drawn) : drawn[i] = "Flipped"})
        current_parity == IF flippedCount % 2 = 0 THEN "Even" ELSE "Odd"
    IN  IF current_parity = desired THEN Append(drawn, "Normal")
        ELSE Append(drawn, "Flipped")

\* the outcomes of slice.shuffle(rng)
Shuffles(arr) == {[i \in 1..Len(arr) |-> arr[p[i] + 1]] : p \in any_permutation(Len(arr))}

EdgeOrientations == {"Normal", "Flipped"}

----------------------------------------------------------------------------
(* floppy_1x2x2.rs *)

Floppy1x2x2_solved == [ul |-> "UL", ur |-> "UR", dr |-> "DR"]

Floppy1x2x2_available_moves == <<"R2", "U2">>

\* apply, with the bodies of u2 and r2
Floppy1x2x2_apply(s, m) ==
    CASE m = "U2" -> [s EXCEPT !.ul = s.ur, !.ur = s.ul]
      [] m = "R2" -> [s EXCEPT !.ur = s.dr, !.dr = s.ur]

Floppy1x2x2_max_fuel == 3

----------------------------------------------------------------------------
(* floppy_1x2x3.rs *)

Floppy1x2x3_solved ==
    [ul |-> "UL", ur |-> "UR", dl |-> "DL", dr |-> "DR", rc_solved |-> "Normal"]

Floppy1x2x3_available_moves == <<"R2", "U2", "D2">>

\* apply, with the bodies of u2, r2 and d2
Floppy1x2x3_apply(s, m) ==
    CASE m = "U2" -> [s EXCEPT !.ul = s.ur, !.ur = s.ul]
      [] m = "R2" -> [s EXCEPT !.ur = s.dr, !.dr = s.ur,
                               !.rc_solved = flipped(s.rc_solved)]
      [] m = "D2" -> [s EXCEPT !.dl = s.dr, !.dr = s.dl]

Floppy1x2x3_max_fuel == 6

----------------------------------------------------------------------------
(* floppy_1x3x3.rs *)

Floppy1x3x3_solved ==
    [ul |-> "UL", ur |-> "UR", dl |-> "DL", dr |-> "DR",
     rc_solved |-> "Normal", lc_solved |-> "Normal",
     uc_solved |-> "Normal", dc_solved |-> "Normal"]

Floppy1x3x3_available_moves == <<"D2", "U2", "L2", "R2">>

\* moves that swap the corners and leave the centers as they are
Floppy1x3x3_apply_no_flip(s, m) ==
    CASE m = "U2" -> [s EXCEPT !.ul = s.ur, !.ur = s.ul]
      [] m = "D2" -> [s EXCEPT !.dl = s.dr, !.dr = s.dl]
      [] m = "R2" -> [s EXCEPT !.ur = s.dr, !.dr = s.ur]
      [] m = "L2" -> [s EXCEPT !.ul = s.dl, !.dl = s.ul]

\* apply, with the bodies of u2, d2, r2 and l2
Floppy1x3x3_apply(s, m) ==
    CASE m = "U2" -> [s EXCEPT !.ul = s.ur, !.ur = s.ul,
                               !.uc_solved = flipped(s.uc_solved)]
      [] m = "D2" -> [s EXCEPT !.dl = s.dr, !.dr = s.dl,
                               !.dc_solved = flipped(s.dc_solved)]
      [] m = "R2" -> [s EXCEPT !.ur = s.dr, !.dr = s.ur,
                               !.rc_solved = flipped(s.rc_solved)]
      [] m = "L2" -> [s EXCEPT !.ul = s.dl, !.dl = s.ul,
                               !.lc_solved = flipped(s.lc_solved)]

\* State::neighbors of Floppy1x3x3, which implements State itself
Floppy1x3x3_neighbors(s) ==
    <<Floppy1x3x3_apply(s, "L2"), Floppy1x3x3_apply(s, "R2"),
      Floppy1x3x3_apply(s, "U2"), Floppy1x3x3_apply(s, "D2")>>

Floppy1x3x3_max_fuel == 8

----------------------------------------------------------------------------
(* moves.rs *)

\* <CubeMoveAmt as CanReverse>::reverse
CubeMoveAmt_reverse(amt) ==
    CASE amt = "One" -> "Rev"
      [] amt = "Two" -> "Two"
      [] amt = "Rev" -> "One"

\* a reverse that gives the same amount back
CornerTwistAmt_same(amt) == amt

\* <CornerTwistAmt as CanReverse>::reverse
CornerTwistAmt_reverse(amt) ==
    CASE amt = "Cw" -> "Ccw"
      [] amt = "Ccw" -> "Cw"

----------------------------------------------------------------------------
(* cuboid_2x2x3.rs; a move is <<"R2">>, <<"F2">>, <<"U", amt>> or <<"D", amt>> *)

Cuboid2x2x3_solved ==
    [ufl |-> "UFL", ufr |-> "UFR", ubl |-> "UBL", ubr |-> "UBR",
     dfl |-> "DFL", dfr |-> "DFR", dbl |-> "DBL", dbr |-> "DBR",
     flc |-> "FL", frc |-> "FR", brc |-> "BR"]

\* the quarter and half turns u, d, f2, r2
Cuboid2x2x3_turn(s, face) ==
    CASE face = "u" -> [s EXCEPT !.ufl = s.ufr, !.ufr = s.ubr,
                                 !.ubr = s.ubl, !.ubl = s.ufl]
      [] face = "d" -> [s EXCEPT !.dfl = s.dbl, !.dbl = s.dbr,
                                 !.dbr = s.dfr, !.dfr = s.dfl]
      [] face = "f2" -> [s EXCEPT !.dfl = s.ufr, !.ufr = s.dfl,
                                  !.dfr = s.ufl, !.ufl = s.dfr,
                                  !.flc = s.frc, !.frc = s.flc]
      [] face = "r2" -> [s EXCEPT !.dfr = s.ubr, !.ubr = s.dfr,
                                  !.dbr = s.ufr, !.ufr = s.dbr,
                                  !.frc = s.brc, !.brc = s.frc]

Cuboid2x2x3_available_moves ==
    <<<<"R2">>, <<"F2">>, <<"U", "One">>, <<"U", "Two">>, <<"U", "Rev">>,
      <<"D", "One">>, <<"D", "Two">>, <<"D", "Rev">>>>

Cuboid2x2x3_is_redundant(last_move, next_move) ==
    CASE last_move[1] = "R2" -> next_move = <<"R2">>
      [] last_move[1] = "F2" -> next_move = <<"F2">>
      [] last_move[1] = "U" -> next_move[1] = "U"
      [] last_move[1] = "D" -> next_move[1] = "D"

Cuboid2x2x3_apply(s, m) ==
    LET u(x) == Cuboid2x2x3_turn(x, "u")
        d(x) == Cuboid2x2x3_turn(x, "d")
    IN  CASE m[1] = "R2" -> Cuboid2x2x3_turn(s, "r2")
          [] m[1] = "F2" -> Cuboid2x2x3_turn(s, "f2")
          [] m[1] = "U" -> (CASE m[2] = "One" -> u(s)
                              [] m[2] = "Two" -> u(u(s))
                              [] m[2] = "Rev" -> u(u(u(s))))
          [] m[1] = "D" -> (CASE m[2] = "One" -> d(s)
                              [] m[2] = "Two" -> d(d(s))
                              [] m[2] = "Rev" -> d(d(d(s))))

Cuboid2x2x3_reverse(m) ==
    CASE m[1] = "R2" -> <<"R2">>
      [] m[1] = "F2" -> <<"F2">>
      [] m[1] = "U" -> <<"U", CubeMoveAmt_reverse(m[2])>>
      [] m[1] = "D" -> <<"D", CubeMoveAmt_reverse(m[2])>>

Cuboid2x2x3_max_fuel == 14

\* all::<CornerCubelet>() and all::<CenterCubelet>()
Cuboid2x2x3_corners == <<"UFL", "UFR", "UBL", "UBR", "DFL", "DFR", "DBL", "DBR">>

Cuboid2x2x3_centers == <<"FL", "FR", "BR">>

\* random_state, given the outcomes of the two any_permutation calls
Cuboid2x2x3_random_state(p_corners, p_centers) ==
    LET corners == shuffle_any(p_corners, Cuboid2x2x3_corners).shuffled
        centers == shuffle_any(p_centers, Cuboid2x2x3_centers).shuffled
    IN  [ufl |-> corners[1], ufr |-> corners[2], ubl |-> corners[3],
         ubr |-> corners[4], dfl |-> corners[5], dfr |-> corners[6],
         dbl |-> corners[7], dbr |-> corners[8],
         flc |-> centers[1], frc |-> centers[2], brc |-> centers[3]]

----------------------------------------------------------------------------
(* dino_cube.rs; a move is <<dir, amt>> *)

\* all::<EdgeCubelet>(); a cubelet's discriminant is its index here, from 0
DinoCube_edges == <<"UL", "UB", "UR", "FL", "FR", "BL", "BR", "DL", "DB", "DR", "DF">>

DinoCube_solved_state ==
    [ul |-> "UL", ub |-> "UB", ur |-> "UR", fl |-> "FL", fr |-> "FR",
     bl |-> "BL", br |-> "BR", dl |-> "DL", db |-> "DB", dr |-> "DR", df |-> "DF"]

DinoCube_solved_mirrored ==
    [ul |-> "UR", ub |-> "UB", ur |-> "UL", fl |-> "FR", fr |-> "FL",
     bl |-> "BR", br |-> "BL", dl |-> "DR", db |-> "DB", dr |-> "DL", df |-> "DF"]

\* the clockwise twists ubl, ubr, dfl, dfr, dbl, dbr, dblw, dbrw
DinoCube_twist(s, dir) ==
    CASE dir = "UBL" -> [s EXCEPT !.ul = s.ub, !.ub = s.bl, !.bl = s.ul]
      [] dir = "UBR" -> [s EXCEPT !.ur = s.br, !.br = s.ub, !.ub = s.ur]
      [] dir = "DFL" -> [s EXCEPT !.fl = s.dl, !.dl = s.df, !.df = s.fl]
      [] dir = "DFR" -> [s EXCEPT !.fr = s.df, !.df = s.dr, !.dr = s.fr]
      [] dir = "DBL" -> [s EXCEPT !.bl = s.db, !.db = s.dl, !.dl = s.bl]
      [] dir = "DBR" -> [s EXCEPT !.dr = s.db, !.db = s.br, !.br = s.dr]
      [] dir = "DBLw" -> [s EXCEPT !.bl = s.db, !.db = s.dl, !.dl = s.bl,
                                   !.fl = s.ub, !.ub = s.dr, !.dr = s.fl,
                                   !.ul = s.br, !.br = s.df, !.df = s.ul]
      [] dir = "DBRw" -> [s EXCEPT !.dr = s.db, !.db = s.br, !.br = s.dr,
                                   !.fr = s.dl, !.dl = s.ub, !.ub = s.fr,
                                   !.df = s.bl, !.bl = s.ur, !.ur = s.df]

\* random_state, given the outcome `out` of the shuffle in with_parity
DinoCube_random_state(out) ==
    LET edges == shuffle_with_parity(out, DinoCube_edges, "Even")
    IN  [ul |-> edges[1], ub |-> edges[2], ur |-> edges[3], fl |-> edges[4],
         fr |-> edges[5], bl |-> edges[6], br |-> edges[7], dl |-> edges[8],
         db |-> edges[9], dr |-> edges[10], df |-> edges[11]]

DinoCube_reverse(m) == <<m[1], CornerTwistAmt_reverse(m[2])>>

DinoCube_is_solved(s) == s = DinoCube_solved_state \/ s = DinoCube_solved_mirrored

DinoCube_available_moves ==
    <<<<"UBL", "Cw">>, <<"UBL", "Ccw">>, <<"UBR", "Cw">>, <<"UBR", "Ccw">>,
      <<"DFL", "Cw">>, <<"DFL", "Ccw">>, <<"DFR", "Cw">>, <<"DFR", "Ccw">>,
      <<"DBL", "Cw">>, <<"DBL", "Ccw">>, <<"DBL", "Cw">>, <<"DBL", "Ccw">>,
      <<"DBLw", "Cw">>, <<"DBLw", "Ccw">>, <<"DBRw", "Cw">>, <<"DBRw", "Ccw">>>>

DinoCube_is_redundant(last_move, next_move) ==
    LET last_dir == last_move[1]
        next_dir == next_move[1]
    IN  CASE last_dir = "DBLw" -> next_dir = "DBLw" \/ next_dir = "DBL"
          [] last_dir = "DBRw" -> next_dir = "DBRw" \/ next_dir = "DBR"
          [] OTHER -> last_dir = next_dir

DinoCube_apply(s, m) ==
    CASE m[2] = "Cw" -> DinoCube_twist(s, m[1])
      [] m[2] = "Ccw" -> DinoCube_twist(DinoCube_twist(s, m[1]), m[1])

DinoCube_max_fuel == 11

\* EdgeCubelet::pack on a u64 held as <<high bits, low 20 bits>>
EdgeCubelet_pack(bits, cubelet) ==
    LET v == (CHOOSE j \in 1..Len(DinoCube_edges) : DinoCube_edges[j] = cubelet) - 1
    IN  <<bits[1] * 16 + (bits[2] \div 65536), ((bits[2] % 65536) * 16) + v>>

\* uniq_key: ten of the eleven edges, four bits each
DinoCube_uniq_key(s) ==
    LET packed(bits, cs) ==
            EdgeCubelet_pack(EdgeCubelet_pack(EdgeCubelet_pack(EdgeCubelet_pack(
                EdgeCubelet_pack(bits, cs[1]), cs[2]), cs[3]), cs[4]), cs[5])
    IN  packed(packed(<<0, 0>>, <<s.ul, s.ur, s.fl, s.fr, s.bl>>),
               <<s.br, s.df, s.dl, s.db, s.dr>>)

----------------------------------------------------------------------------
(* floppy_1xnxn.rs: Floppy1xMxN<H, W>; a move is <<"U2", y>> or <<"R2", x>>. *)
(* The element [i] of an array is the element i + 1 of its sequence.        *)

\* slice::swap(x, len - 1 - x) for x in 0..(len / 2)
swapped_ends(q) == [i \in 1..Len(q) |-> q[Len(q) + 1 - i]]

Floppy1xMxN_solved(H, W) ==
    [ul |-> "UL", ur |-> "UR", dr |-> "DR",
     centers |-> [y \in 1..H |-> [x \in 1..W |-> TRUE]],
     left_edge_pos |-> [y \in 1..H |-> TRUE], left_edge_orr |-> [y \in 1..H |-> TRUE],
     right_edge_pos |-> [y \in 1..H |-> TRUE], right_edge_orr |-> [y \in 1..H |-> TRUE],
     top_edge_pos |-> [x \in 1..W |-> TRUE], top_edge_orr |-> [x \in 1..W |-> TRUE],
     bot_edge_pos |-> [x \in 1..W |-> TRUE], bot_edge_orr |-> [x \in 1..W |-> TRUE]]

Floppy1xMxN_u2(s, num_center_rows) ==
    LET H == Len(s.left_edge_pos)
        W == Len(s.top_edge_pos)
        row(y) == y <= num_center_rows
    IN  [s EXCEPT
            !.ul = s.ur, !.ur = s.ul,
            !.top_edge_pos = swapped_ends(s.top_edge_pos),
            !.top_edge_orr = [x \in 1..W |-> ~swapped_ends(s.top_edge_orr)[x]],
            !.left_edge_orr = [y \in 1..H |->
                IF row(y) THEN ~s.right_edge_orr[y] ELSE s.left_edge_orr[y]],
            !.right_edge_orr = [y \in 1..H |->
                IF row(y) THEN ~s.left_edge_orr[y] ELSE s.right_edge_orr[y]],
            !.left_edge_pos = [y \in 1..H |->
                IF row(y) THEN ~s.right_edge_pos[y] ELSE s.left_edge_pos[y]],
            !.right_edge_pos = [y \in 1..H |->
                IF row(y) THEN ~s.left_edge_pos[y] ELSE s.right_edge_pos[y]],
            !.centers = [y \in 1..H |->
                IF row(y) THEN [x \in 1..W |-> ~swapped_ends(s.centers[y])[x]]
                ELSE s.centers[y]]]

\* r2 without the flip of the right edges' orientation
Floppy1xMxN_r2_keep_orr(s, num_center_cols) ==
    LET H == Len(s.left_edge_pos)
        W == Len(s.top_edge_pos)
        col(x) == x <= num_center_cols
    IN  [s EXCEPT
            !.ur = s.dr, !.dr = s.ur,
            !.right_edge_orr = swapped_ends(s.right_edge_orr),
            !.right_edge_pos = swapped_ends(s.right_edge_pos),
            !.top_edge_orr = [x \in 1..W |->
                IF col(x) THEN ~s.bot_edge_orr[x] ELSE s.top_edge_orr[x]],
            !.bot_edge_orr = [x \in 1..W |->
                IF col(x) THEN ~s.top_edge_orr[x] ELSE s.bot_edge_orr[x]],
            !.top_edge_pos = [x \in 1..W |->
                IF col(x) THEN ~s.bot_edge_pos[x] ELSE s.top_edge_pos[x]],
            !.bot_edge_pos = [x \in 1..W |->
                IF col(x) THEN ~s.top_edge_pos[x] ELSE s.bot_edge_pos[x]],
            !.centers = [y \in 1..H |-> [x \in 1..W |->
                IF col(x) THEN ~s.centers[H + 1 - y][x] ELSE s.centers[y][x]]]]

Floppy1xMxN_r2(s, num_center_cols) ==
    LET H == Len(s.left_edge_pos)
        W == Len(s.top_edge_pos)
        col(x) == x <= num_center_cols
    IN  [s EXCEPT
            !.ur = s.dr, !.dr = s.ur,
            !.right_edge_orr = [y \in 1..H |-> ~swapped_ends(s.right_edge_orr)[y]],
            !.right_edge_pos = swapped_ends(s.right_edge_pos),
            !.top_edge_orr = [x \in 1..W |->
                IF col(x) THEN ~s.bot_edge_orr[x] ELSE s.top_edge_orr[x]],
            !.bot_edge_orr = [x \in 1..W |->
                IF col(x) THEN ~s.top_edge_orr[x] ELSE s.bot_edge_orr[x]],
            !.top_edge_pos = [x \in 1..W |->
                IF col(x) THEN ~s.bot_edge_pos[x] ELSE s.top_edge_pos[x]],
            !.bot_edge_pos = [x \in 1..W |->
                IF col(x) THEN ~s.top_edge_pos[x] ELSE s.bot_edge_pos[x]],
            !.centers = [y \in 1..H |-> [x \in 1..W |->
                IF col(x) THEN ~s.centers[H + 1 - y][x] ELSE s.centers[y][x]]]]

Floppy1xMxN_reverse(m) == m

\* the moves when the ranges of U2 stop short of H
Floppy1xMxN_available_moves_exclusive(H, W) ==
    [y \in 1..H |-> <<"U2", y - 1>>] \o [x \in 1..(W + 1) |-> <<"R2", x - 1>>]

Floppy1xMxN_available_moves(H, W) ==
    [y \in 1..(H + 1) |-> <<"U2", y - 1>>] \o [x \in 1..(W + 1) |-> <<"R2", x - 1>>]

Floppy1xMxN_apply(s, m) ==
    CASE m[1] = "U2" -> Floppy1xMxN_u2(s, m[2])
      [] m[1] = "R2" -> Floppy1xMxN_r2(s, m[2])

----------------------------------------------------------------------------
(* cuboid_2x3x3.rs; a move is <<"Rw2">>, <<"R2">>, <<"Fw2">>, <<"F2">> or <<"U", amt>> *)

Cuboid2x3x3_solved ==
    [ufl |-> "UFL", ufr |-> "UFR", ubl |-> "UBL", ubr |-> "UBR",
     dfl |-> "DFL", dfr |-> "DFR", dbr |-> "DBR",
     uf |-> "UF", ul |-> "UL", ub |-> "UB", ur |-> "UR",
     df |-> "DF", dl |-> "DL", db |-> "DB", dr |-> "DR",
     uc |-> "U", dc |-> "D"]

\* the turns u, r2, rw2, f2, fw2
Cuboid2x3x3_turn(s, face) ==
    CASE face = "u" -> [s EXCEPT !.uf = s.ur, !.ur = s.ub, !.ub = s.ul, !.ul = s.uf,
                                 !.ufl = s.ufr, !.ufr = s.ubr,
                                 !.ubr = s.ubl, !.ubl = s.ufl]
      [] face = "r2" -> [s EXCEPT !.ufr = s.dbr, !.dbr = s.ufr,
                                  !.ubr = s.dfr, !.dfr = s.ubr,
                                  !.ur = s.dr, !.dr = s.ur]
      [] face = "rw2" -> [s EXCEPT !.ufr = s.dbr, !.dbr = s.ufr,
                                   !.ubr = s.dfr, !.dfr = s.ubr,
                                   !.ur = s.dr, !.dr = s.ur,
                                   !.uf = s.db, !.db = s.uf,
                                   !.ub = s.df, !.df = s.ub,
                                   !.uc = s.dc, !.dc = s.uc]
      [] face = "f2" -> [s EXCEPT !.ufl = s.dfr, !.dfr = s.ufl,
                                  !.ufr = s.dfl, !.dfl = s.ufr,
                                  !.uf = s.df, !.df = s.uf]
      [] face = "fw2" -> [s EXCEPT !.ufl = s.dfr, !.dfr = s.ufl,
                                   !.ufr = s.dfl, !.dfl = s.ufr,
                                   !.uf = s.df, !.df = s.uf,
                                   !.ul = s.dr, !.dr = s.ul,
                                   !.dl = s.ur, !.ur = s.dl,
                                   !.uc = s.dc, !.dc = s.uc]

Cuboid2x3x3_reverse(m) ==
    CASE m[1] = "Rw2" -> <<"Rw2">>
      [] m[1] = "R2" -> <<"R2">>
      [] m[1] = "Fw2" -> <<"Fw2">>
      [] m[1] = "F2" -> <<"F2">>
      [] m[1] = "U" -> <<"U", CubeMoveAmt_reverse(m[2])>>

Cuboid2x3x3_available_moves ==
    <<<<"Rw2">>, <<"R2">>, <<"Fw2">>, <<"F2">>,
      <<"U", "One">>, <<"U", "Two">>, <<"U", "Rev">>>>

Cuboid2x3x3_apply(s, m) ==
    LET u(x) == Cuboid2x3x3_turn(x, "u")
    IN  CASE m[1] = "R2" -> Cuboid2x3x3_turn(s, "r2")
          [] m[1] = "Rw2" -> Cuboid2x3x3_turn(s, "rw2")
          [] m[1] = "F2" -> Cuboid2x3x3_turn(s, "f2")
          [] m[1] = "Fw2" -> Cuboid2x3x3_turn(s, "fw2")
          [] m[1] = "U" -> (CASE m[2] = "One" -> u(s)
                              [] m[2] = "Two" -> u(u(s))
                              [] m[2] = "Rev" -> u(u(u(s))))

----------------------------------------------------------------------------
(* redi_cube.rs; a move is <<corner, amt>> *)

RediCube_solved ==
    [edges |-> [uf |-> "UF", ur |-> "UR", ul |-> "UL", ub |-> "UB",
                df |-> "DF", dr |-> "DR", dl |-> "DL", db |-> "DB",
                fl |-> "FL", fr |-> "FR", bl |-> "BL", br |-> "BR"],
     corners |-> [ufl |-> "Normal", ufr |-> "Normal", ubl |-> "Normal",
                  ubr |-> "Normal", dfl |-> "Normal", dfr |-> "Normal",
                  dbl |-> "Normal", dbr |-> "Normal"]]

\* EdgeState::ufl .. dbr: the three edges handed to cycle_cw, in its order
RediCube_cycled ==
    [ufl |-> <<"uf", "fl", "ul">>, ufr |-> <<"uf", "ur", "fr">>,
     ubl |-> <<"ub", "ul", "bl">>, ubr |-> <<"ub", "br", "ur">>,
     dfl |-> <<"df", "dl", "fl">>, dfr |-> <<"df", "fr", "dr">>,
     dbl |-> <<"db", "bl", "dl">>, dbr |-> <<"db", "dr", "br">>]

\* RediCube::ufr .. dbr: the edges cycled and the corner turned cw
RediCube_twist(s, corner) ==
    LET abc == RediCube_cycled[corner]
        now == cycle_cw(s.edges[abc[1]], s.edges[abc[2]], s.edges[abc[3]])
    IN  [edges |-> [s.edges EXCEPT ![abc[1]] = now[1], ![abc[2]] = now[2],
                                   ![abc[3]] = now[3]],
         corners |-> [s.corners EXCEPT ![corner] = CornerOrientation_cw(@)]]

RediCube_reverse(m) == <<m[1], CornerTwistAmt_reverse(m[2])>>

RediCube_available_moves ==
    <<<<"UFL", "Cw">>, <<"UFL", "Ccw">>, <<"UFR", "Cw">>, <<"UFR", "Ccw">>,
      <<"UBL", "Cw">>, <<"UBL", "Ccw">>, <<"UBR", "Cw">>, <<"UBR", "Ccw">>,
      <<"DFL", "Cw">>, <<"DFL", "Ccw">>, <<"DFR", "Cw">>, <<"DFR", "Ccw">>,
      <<"DBL", "Cw">>, <<"DBL", "Ccw">>, <<"DBR", "Cw">>, <<"DBR", "Ccw">>>>

\* apply, with do_twist!
RediCube_apply(s, m) ==
    LET corner_name == CASE m[1] = "UFR" -> "ufr" [] m[1] = "UFL" -> "ufl"
                         [] m[1] = "UBL" -> "ubl" [] m[1] = "UBR" -> "ubr"
                         [] m[1] = "DFR" -> "dfr" [] m[1] = "DFL" -> "dfl"
                         [] m[1] = "DBL" -> "dbl" [] m[1] = "DBR" -> "dbr"
    IN  CASE m[2] = "Cw" -> RediCube_twist(s, corner_name)
          [] m[2] = "Ccw" -> RediCube_twist(RediCube_twist(s, corner_name), corner_name)

\* is_redundant with UFR added to the moves not to follow UBR
RediCube_is_redundant_adjacent(last_move, next_move) ==
    CASE last_move[1] = "UFR" -> next_move[1] \in {"UFR"}
      [] last_move[1] = "UFL" -> next_move[1] \in {"UFL"}
      [] last_move[1] = "UBR" -> next_move[1] \in {"UFR", "UFL", "UBR"}
      [] last_move[1] = "UBL" -> next_move[1] \in {"UFR", "UBL"}
      [] last_move[1] = "DFR" -> next_move[1] \in {"UFL", "UBR", "UBL", "DFR"}
      [] last_move[1] = "DFL" -> next_move[1] \in {"UFR", "UBR", "UBL", "DFL"}
      [] last_move[1] = "DBR" -> next_move[1] \in {"UFR", "UFL", "UBL", "DFL", "DBR"}
      [] last_move[1] = "DBL" -> next_move[1] \in {"UFR", "UFL", "UBR", "DFR", "DBL"}

\* <RediCube as Solvable>::is_redundant
RediCube_is_redundant(last_move, next_move) ==
    CASE last_move[1] = "UFR" -> next_move[1] \in {"UFR"}
      [] last_move[1] = "UFL" -> next_move[1] \in {"UFL"}
      [] last_move[1] = "UBR" -> next_move[1] \in {"UFL", "UBR"}
      [] last_move[1] = "UBL" -> next_move[1] \in {"UFR", "UBL"}
      [] last_move[1] = "DFR" -> next_move[1] \in {"UFL", "UBR", "UBL", "DFR"}
      [] last_move[1] = "DFL" -> next_move[1] \in {"UFR", "UBR", "UBL", "DFL"}
      [] last_move[1] = "DBR" -> next_move[1] \in {"UFR", "UFL", "UBL", "DFL", "DBR"}
      [] last_move[1] = "DBL" -> next_move[1] \in {"UFR", "UFL", "UBR", "DFR", "DBL"}

RediCube_max_fuel == 30

\* fn in_place_cost
in_place_cost(corner_a_orr, corner_b_orr) ==
    IF corner_a_orr = "Normal"
    THEN IF corner_b_orr = "Normal" THEN 0 ELSE 2
    ELSE IF corner_b_orr = "Normal" THEN 2 ELSE 4

\* fn one_off_cost
one_off_cost(expected_corner_orr, actual_corner_orr) ==
    IF actual_corner_orr = expected_corner_orr THEN 1 ELSE 3

\* fn dist: source_position is the slot, goal_position the cubelet in it
RediCube_dist(source_position, goal_position, cube) ==
    CASE goal_position = "UF" ->
            (CASE source_position = "UF" -> in_place_cost(cube.corners.ufl, cube.corners.ufr)
               [] source_position = "DB" -> 3
               [] source_position = "UL" -> one_off_cost(cube.corners.ufl, "CCW")
               [] source_position = "FL" -> one_off_cost(cube.corners.ufl, "CW")
               [] source_position = "UR" -> one_off_cost(cube.corners.ufr, "CW")
               [] source_position = "FR" -> one_off_cost(cube.corners.ufr, "CCW")
               [] OTHER -> 2)
      [] goal_position = "UL" ->
            (CASE source_position = "UL" -> in_place_cost(cube.corners.ubl, cube.corners.ufl)
               [] source_position = "DR" -> 3
               [] source_position = "UB" -> one_off_cost(cube.corners.ubl, "CCW")
               [] source_position = "BL" -> one_off_cost(cube.corners.ubl, "CW")
               [] source_position = "UF" -> one_off_cost(cube.corners.ufl, "CW")
               [] source_position = "FL" -> one_off_cost(cube.corners.ufl, "CCW")
               [] OTHER -> 2)
      [] goal_position = "UR" ->
            (CASE source_position = "UR" -> in_place_cost(cube.corners.ufr, cube.corners.ubr)
               [] source_position = "DL" -> 3
               [] source_position = "UF" -> one_off_cost(cube.corners.ufr, "CCW")
               [] source_position = "FR" -> one_off_cost(cube.corners.ufr, "CW")
               [] source_position = "UB" -> one_off_cost(cube.corners.ubr, "CW")
               [] source_position = "BR" -> one_off_cost(cube.corners.ubr, "CCW")
               [] OTHER -> 2)
      [] goal_position = "UB" ->
            (CASE source_position = "UB" -> in_place_cost(cube.corners.ubr, cube.corners.ubl)
               [] source_position = "DF" -> 3
               [] source_position = "UR" -> one_off_cost(cube.corners.ubr, "CCW")
               [] source_position = "BR" -> one_off_cost(cube.corners.ubr, "CW")
               [] source_position = "UL" -> one_off_cost(cube.corners.ubl, "CW")
               [] source_position = "BL" -> one_off_cost(cube.corners.ubl, "CCW")
               [] OTHER -> 2)
      [] goal_position = "DF" ->
            (CASE source_position = "DF" -> in_place_cost(cube.corners.dfl, cube.corners.dfr)
               [] source_position = "UB" -> 3
               [] source_position = "DR" -> one_off_cost(cube.corners.dfl, "CCW")
               [] source_position = "FR" -> one_off_cost(cube.corners.dfl, "CW")
               [] source_position = "DL" -> one_off_cost(cube.corners.dfr, "CW")
               [] source_position = "FL" -> one_off_cost(cube.corners.dfr, "CCW")
               [] OTHER -> 2)
      [] goal_position = "DL" ->
            (CASE source_position = "DL" -> in_place_cost(cube.corners.dfl, cube.corners.dbl)
               [] source_position = "UR" -> 3
               [] source_position = "DF" -> one_off_cost(cube.corners.dfl, "CCW")
               [] source_position = "FL" -> one_off_cost(cube.corners.dfl, "CW")
               [] source_position = "DB" -> one_off_cost(cube.corners.dbl, "CW")
               [] source_position = "BL" -> one_off_cost(cube.corners.dbl, "CCW")
               [] OTHER -> 2)
      [] goal_position = "DR" ->
            (CASE source_position = "DR" -> in_place_cost(cube.corners.dbr, cube.corners.dfr)
               [] source_position = "UL" -> 3
               [] source_position = "DB" -> one_off_cost(cube.corners.dbr, "CCW")
               [] source_position = "BR" -> one_off_cost(cube.corners.dbr, "CW")
               [] source_position = "DF" -> one_off_cost(cube.corners.dfr, "CW")
               [] source_position = "FR" -> one_off_cost(cube.corners.dfr, "CCW")
               [] OTHER -> 2)
      [] goal_position = "DB" ->
            (CASE source_position = "DB" -> in_place_cost(cube.corners.dbl, cube.corners.dbr)
               [] source_position = "UF" -> 3
               [] source_position = "DL" -> one_off_cost(cube.corners.dbl, "CCW")
               [] source_position = "BL" -> one_off_cost(cube.corners.dbl, "CW")
               [] source_position = "DR" -> one_off_cost(cube.corners.dbr, "CW")
               [] source_position = "BR" -> one_off_cost(cube.corners.dbr, "CCW")
               [] OTHER -> 2)
      [] goal_position = "FL" ->
            (CASE source_position = "FL" -> in_place_cost(cube.corners.dbl, cube.corners.dbr)
               [] source_position = "BR" -> 3
               [] source_position = "UF" -> one_off_cost(cube.corners.ufl, "CCW")
               [] source_position = "UL" -> one_off_cost(cube.corners.ufl, "CW")
               [] source_position = "DF" -> one_off_cost(cube.corners.dfl, "CW")
               [] source_position = "DL" -> one_off_cost(cube.corners.dfl, "CCW")
               [] OTHER -> 2)
      [] goal_position = "FR" ->
            (CASE source_position = "FR" -> in_place_cost(cube.corners.dfr, cube.corners.ufr)
               [] source_position = "BL" -> 3
               [] source_position = "DF" -> one_off_cost(cube.corners.dfr, "CCW")
               [] source_position = "DR" -> one_off_cost(cube.corners.dfr, "CW")
               [] source_position = "UF" -> one_off_cost(cube.corners.ufr, "CW")
               [] source_position = "UR" -> one_off_cost(cube.corners.ufr, "CCW")
               [] OTHER -> 2)
      [] goal_position = "BL" ->
            (CASE source_position = "BL" -> in_place_cost(cube.corners.dbl, cube.corners.ubl)
               [] source_position = "FR" -> 3
               [] source_position = "DB" -> one_off_cost(cube.corners.dbl, "CCW")
               [] source_position = "DL" -> one_off_cost(cube.corners.dbl, "CW")
               [] source_position = "UB" -> one_off_cost(cube.corners.ubl, "CW")
               [] source_position = "UL" -> one_off_cost(cube.corners.ubl, "CCW")
               [] OTHER -> 2)
      [] goal_position = "BR" ->
            (CASE source_position = "BR" -> in_place_cost(cube.corners.ubr, cube.corners.dbr)
               [] source_position = "FL" -> 3
               [] source_position = "UB" -> one_off_cost(cube.corners.ubr, "CCW")
               [] source_position = "UR" -> one_off_cost(cube.corners.ubr, "CW")
               [] source_position = "DB" -> one_off_cost(cube.corners.dbr, "CW")
               [] source_position = "DR" -> one_off_cost(cube.corners.dbr, "CCW")
               [] OTHER -> 2)

\* the fields of EdgeState in the order dist_heuristic adds them up
RediCube_dist_order ==
    <<"uf", "ul", "ur", "ub", "df", "dl", "dr", "db", "fl", "fr", "bl", "br">>

\* the EdgeCubelet a field of EdgeState is named after
RediCube_slot ==
    [uf |-> "UF", ul |-> "UL", ur |-> "UR", ub |-> "UB",
     df |-> "DF", dl |-> "DL", dr |-> "DR", db |-> "DB",
     fl |-> "FL", fr |-> "FR", bl |-> "BL", br |-> "BR"]

\* total_cost of dist_heuristic once the first n fields are added up
RECURSIVE RediCube_total_cost(_, _)
RediCube_total_cost(cube, n) ==
    IF n = 0 THEN 0
    ELSE RediCube_total_cost(cube, n - 1)
         + RediCube_dist(RediCube_slot[RediCube_dist_order[n]],
                         cube.edges[RediCube_dist_order[n]], cube)

\* fn dist_heuristic
dist_heuristic(cube) == (RediCube_total_cost(cube, 12) + 2) \div 3

----------------------------------------------------------------------------
(* bandaged_3x3x3_1x2x3.rs; a move is <<"R", amt>>, <<"Rw", amt>> or <<"U", amt>> *)

Bandaged_PositionState_solved ==
    [ufl |-> "UFL", ufr |-> "UFR", ubl |-> "UBL", ubr |-> "UBR",
     dfr |-> "DFR", dbr |-> "DBR",
     uf |-> "UF", ul |-> "UL", ub |-> "UB", ur |-> "UR", fr |-> "FR",
     br |-> "BR", df |-> "DF", db |-> "DB", dr |-> "DR",
     uc |-> "U", dc |-> "D", fc |-> "F", bc |-> "B"]

\* PositionState::u, m, r, rw
Bandaged_PositionState_turn(p, face) ==
    LET u(x) == [x EXCEPT !.uf = x.ur, !.ur = x.ub, !.ub = x.ul, !.ul = x.uf,
                          !.ufl = x.ufr, !.ufr = x.ubr, !.ubr = x.ubl, !.ubl = x.ufl]
        m(x) == [x EXCEPT !.uf = x.df, !.df = x.db, !.db = x.ub, !.ub = x.uf,
                          !.uc = x.fc, !.fc = x.dc, !.dc = x.bc, !.bc = x.uc]
        r(x) == [x EXCEPT !.ufr = x.dfr, !.dfr = x.dbr, !.dbr = x.ubr, !.ubr = x.ufr,
                          !.ur = x.fr, !.fr = x.dr, !.dr = x.br, !.br = x.ur]
    IN  CASE face = "u" -> u(p)
          [] face = "m" -> m(p)
          [] face = "r" -> r(p)
          [] face = "rw" -> m(r(p))

\* OrientationState::solved, the derived Default
Bandaged_OrientationState_solved ==
    [ufl |-> "Normal", ufr |-> "Normal", ubl |-> "Normal", ubr |-> "Normal",
     dfr |-> "Normal", dbr |-> "Normal",
     uf |-> "Normal", ur |-> "Normal", ub |-> "Normal", ul |-> "Normal",
     fr |-> "Normal", br |-> "Normal", df |-> "Normal", dr |-> "Normal",
     db |-> "Normal"]

\* OrientationState::u, m, r, rw
Bandaged_OrientationState_turn(o, face) ==
    LET u(x) == [x EXCEPT !.uf = x.ur, !.ur = x.ub, !.ub = x.ul, !.ul = x.uf,
                          !.ufl = x.ufr, !.ufr = x.ubr, !.ubr = x.ubl, !.ubl = x.ufl]
        m(x) == [x EXCEPT !.uf = flipped(x.df), !.df = flipped(x.db),
                          !.db = flipped(x.ub), !.ub = flipped(x.uf)]
        r(x) == [x EXCEPT !.ufr = CornerOrientation_ccw(x.dfr),
                          !.dfr = CornerOrientation_cw(x.dbr),
                          !.dbr = CornerOrientation_ccw(x.ubr),
                          !.ubr = CornerOrientation_cw(x.ufr),
                          !.ur = x.fr, !.fr = x.dr, !.dr = x.br, !.br = x.ur]
    IN  CASE face = "u" -> u(o)
          [] face = "m" -> m(o)
          [] face = "r" -> r(o)
          [] face = "rw" -> r(m(o))

Bandaged_solved ==
    [pos |-> Bandaged_PositionState_solved, orr |-> Bandaged_OrientationState_solved]

\* Bandaged3x3x3with1x2x3::r, rw, u
Bandaged_turn(s, face) ==
    [pos |-> Bandaged_PositionState_turn(s.pos, face),
     orr |-> Bandaged_OrientationState_turn(s.orr, face)]

Bandaged_reverse(m) == <<m[1], CubeMoveAmt_reverse(m[2])>>

Bandaged_available_moves ==
    <<<<"R", "One">>, <<"R", "Two">>, <<"R", "Rev">>,
      <<"Rw", "One">>, <<"Rw", "Two">>, <<"Rw", "Rev">>,
      <<"U", "One">>, <<"U", "Two">>, <<"U", "Rev">>>>

Bandaged_apply(s, m) ==
    LET face == CASE m[1] = "R" -> "r" [] m[1] = "Rw" -> "rw" [] m[1] = "U" -> "u"
        turn(x) == Bandaged_turn(x, face)
    IN  CASE m[2] = "One" -> turn(s)
          [] m[2] = "Two" -> turn(turn(s))
          [] m[2] = "Rev" -> turn(turn(turn(s)))

\* a u64 is held as <<top 20 bits, middle 22 bits, low 22 bits>>;
\* (x << k) + v, for k <= 3 and v < 16, wrapping at 64 bits
U64_shl_add(x, k, v) ==
    LET pow == IF k = 1 THEN 2 ELSE IF k = 2 THEN 4 ELSE 8
        lo == x[3] * pow + v
        mid == x[2] * pow + (lo \div 4194304)
        top == x[1] * pow + (mid \div 4194304)
    IN  <<top % 1048576, mid % 4194304, lo % 4194304>>

\* the discriminant of a variant: its place in the enum
Discriminant(variants, v) == (CHOOSE j \in 1..Len(variants) : variants[j] = v) - 1

Bandaged_CornerCubelets == <<"UFL", "UFR", "UBL", "UBR", "DFR", "DBR">>

Bandaged_EdgeCubelets == <<"UF", "UL", "UB", "UR", "FR", "BR", "DF", "DB", "DR">>

Bandaged_CenterCubelets == <<"U", "D", "F", "B">>

\* CornerCubelet::pack
CornerCubelet_pack(source, c) ==
    U64_shl_add(source, 3, Discriminant(Bandaged_CornerCubelets, c))

\* EdgeCubelet::pack (bandaged_3x3x3_1x2x3.rs)
Bandaged_EdgeCubelet_pack(source, c) ==
    U64_shl_add(source, 3, Discriminant(Bandaged_EdgeCubelets, c))

\* CenterCubelet::pack
CenterCubelet_pack(source, c) ==
    U64_shl_add(source, 2, Discriminant(Bandaged_CenterCubelets, c))

\* CornerOrientation::as_u8_two_bits
as_u8_two_bits(o) == CASE o = "Normal" -> 0 [] o = "CW" -> 1 [] o = "CCW" -> 2

\* EdgeOrientation::as_u8_one_bit
as_u8_one_bit(o) == IF o = "Normal" THEN 0 ELSE 1

\* the calls of uniq_key in sequence, from the i-th value on: pack for the
\* cubelets, out = (out << 2) | as_u8_two_bits for the corner orientations,
\* out = (out << 3) | as_u8_one_bit for the edge orientations
\* (out is three words; it is read before the next call is begun)
RECURSIVE Bandaged_pack_all(_, _, _, _)
Bandaged_pack_all(what, out, vals, i) ==
    IF i > Len(vals) \/ out = <<>> THEN out
    ELSE Bandaged_pack_all(what,
             CASE what = "corner" -> CornerCubelet_pack(out, vals[i])
               [] what = "edge" -> Bandaged_EdgeCubelet_pack(out, vals[i])
               [] what = "center" -> CenterCubelet_pack(out, vals[i])
               [] what = "corner orr" -> U64_shl_add(out, 2, as_u8_two_bits(vals[i]))
               [] what = "edge orr" -> U64_shl_add(out, 3, as_u8_one_bit(vals[i])),
             vals, i + 1)

\* <Bandaged3x3x3with1x2x3 as SimpleStartState>::uniq_key
Bandaged_uniq_key(s) ==
    LET p == s.pos
        o == s.orr
        corners == Bandaged_pack_all("corner", <<0, 0, 0>>,
                       <<p.ufl, p.ufr, p.ubl, p.ubr, p.dfr, p.dbr>>, 1)
        twists == Bandaged_pack_all("corner orr", corners,
                       <<o.ufl, o.ufr, o.ubl, o.ubr, o.dfr, o.dbr>>, 1)
        out_corners == Bandaged_pack_all("center", twists,
                       <<p.uc, p.dc, p.fc, p.bc>>, 1)
        edges == Bandaged_pack_all("edge", <<0, 0, 0>>,
                       <<p.uf, p.uf, p.uf, p.uf, p.uf, p.uf, p.uf, p.uf, p.uf>>, 1)
        out_edges == Bandaged_pack_all("edge orr", edges,
                       <<o.uf, o.ur, o.ul, o.ub, o.fr, o.br, o.df, o.db, o.dr>>, 1)
    IN  <<out_corners, out_edges>>


\* the variants of redi_cube::EdgeCubelet, in declaration order
RediCube_EdgeCubelets ==
    <<"UF", "UL", "UR", "UB", "DF", "DL", "DR", "DB", "FL", "FR", "BL", "BR">>

\* EdgeCubelet::pack (redi_cube.rs): (source << 4) + discriminant
RediCube_EdgeCubelet_pack(source, c) ==
    U64_shl_add(U64_shl_add(source, 2, 0), 2, Discriminant(RediCube_EdgeCubelets, c))

\* EdgeState::pack and CornerState::pack, from the i-th field on
\* (out is three words; it is read before the next field is packed)
RECURSIVE RediCube_pack_all(_, _, _, _)
RediCube_pack_all(what, out, vals, i) ==
    IF i > Len(vals) \/ out = <<>> THEN out
    ELSE RediCube_pack_all(what,
             IF what = "edge" THEN RediCube_EdgeCubelet_pack(out, vals[i])
             ELSE U64_shl_add(out, 2, as_u8_two_bits(vals[i])),
             vals, i + 1)

\* <RediCube as SimpleStartState>::uniq_key
RediCube_uniq_key(s) ==
    LET e == s.edges
        c == s.corners
        edges == RediCube_pack_all("edge", <<0, 0, 0>>,
                     <<e.uf, e.ur, e.ul, e.ub, e.df, e.dr, e.dl, e.db,
                       e.fl, e.fr, e.bl, e.br>>, 1)
    IN  RediCube_pack_all("corner", edges,
            <<c.ufl, c.ufr, c.ubl, c.ubr, c.dfl, c.dfr, c.dbl, c.dbr>>, 1)

----------------------------------------------------------------------------
(* square_one_shape.rs; a state is [top, bot], each the sequence of the    *)
(* twelve Piecelets of a layer ([i] of the array is element i + 1)         *)

\* [T; 12]::rotate_left(amt)
rotate_left(arr, amt) ==
    SubSeq(arr, (amt % Len(arr)) + 1, Len(arr)) \o SubSeq(arr, 1, amt % Len(arr))

\* [T; 12]::rotate_right(amt)
rotate_right(arr, amt) ==
    SubSeq(arr, Len(arr) - amt + 1, Len(arr)) \o SubSeq(arr, 1, Len(arr) - amt)

\* SquareOneShape::u
SquareOneShape_u(s, amt) == [top |-> rotate_right(s.top, amt), bot |-> s.bot]

\* SquareOneShape::d
SquareOneShape_d(s, amt) == [top |-> s.top, bot |-> rotate_right(s.bot, amt)]

\* SquareOneShape::slice: top[6 + i] and bot[i] change places, i in 0..6
SquareOneShape_slice(s) ==
    [top |-> SubSeq(s.top, 1, 6) \o SubSeq(s.bot, 1, 6),
     bot |-> SubSeq(s.top, 7, 12) \o SubSeq(s.bot, 7, 12)]

\* can_slice looking at the front slice point only
SquareOneShape_can_slice_front_only(s) ==
    s.top[1] # "EndCorner" /\ s.bot[1] # "EndCorner"

\* SquareOneShape::can_slice
SquareOneShape_can_slice(s) ==
    /\ s.top[1] # "EndCorner" /\ s.top[7] # "EndCorner"
    /\ s.bot[1] # "EndCorner" /\ s.bot[7] # "EndCorner"

\* <SquareOneShape as State>::start
SquareOneShape_start ==
    [top |-> [i \in 1..12 |-> <<"StartCorner", "EndCorner", "Edge">>[((i - 1) % 3) + 1]],
     bot |-> [i \in 1..12 |-> <<"Edge", "StartCorner", "EndCorner">>[((i - 1) % 3) + 1]]]

\* <SquareOneShape as State>::uniq_key: the fold over self.top, out a u16
RECURSIVE SquareOneShape_key_fold(_, _, _)
SquareOneShape_key_fold(top, i, out) ==
    IF i > Len(top) THEN out
    ELSE SquareOneShape_key_fold(top, i + 1,
             CASE top[i] = "Edge" -> (out * 2) % 65536
               [] top[i] = "StartCorner" -> (((out * 2) % 65536) + 1) % 65536
               [] top[i] = "EndCorner" -> out)

SquareOneShape_uniq_key(s) == SquareOneShape_key_fold(s.top, 1, 0)

\* <SquareOneShape as State>::neighbors, in call order
SquareOneShape_neighbors(s) ==
    [i \in 1..22 |-> IF i % 2 = 1 THEN SquareOneShape_u(s, (i + 1) \div 2)
                     ELSE SquareOneShape_d(s, i \div 2)]
    \o (IF SquareOneShape_can_slice(s) THEN <<SquareOneShape_slice(s)>> ELSE <<>>)

----------------------------------------------------------------------------
(* cuboid_3x3x4.rs; a move is <<"Rw2">>, <<"R2">>, <<"Fw2">>, <<"F2">>,     *)
(* <<"U", amt>>, <<"Uw", amt>> or <<"Uww", amt>>                            *)

Cuboid3x3x4_OuterCornerCubelets == <<"UFL", "UFR", "UBL", "UBR", "DFL", "DFR", "DBR">>

Cuboid3x3x4_InnerCornerCubelets ==
    <<"UFL", "UFR", "UBL", "UBR", "DFL", "DFR", "DBL", "DBR">>

Cuboid3x3x4_OuterEdgeCubelets == <<"UF", "UL", "UB", "UR", "DF", "DL", "DB", "DR">>

Cuboid3x3x4_OuterCenterCubelets == <<"U", "D">>

Cuboid3x3x4_InnerCenterCubelets == <<"F", "L", "R", "B">>

OuterCorners_solved ==
    [ufl |-> "UFL", ufr |-> "UFR", ubl |-> "UBL", ubr |-> "UBR",
     dfl |-> "DFL", dfr |-> "DFR", dbr |-> "DBR", uc |-> "U", dc |-> "D"]

OuterEdges_solved ==
    [uf |-> "UF", ur |-> "UR", ub |-> "UB", ul |-> "UL",
     df |-> "DF", dr |-> "DR", db |-> "DB", dl |-> "DL"]

OuterCuboid3x3x4_solved == [corners |-> OuterCorners_solved, edges |-> OuterEdges_solved]

InnerCuboid3x3x4_solved ==
    [ufl |-> "UFL", ufr |-> "UFR", ubl |-> "UBL", ubr |-> "UBR",
     dfl |-> "DFL", dfr |-> "DFR", dbl |-> "DBL", dbr |-> "DBR",
     uf |-> "F", ur |-> "R", ub |-> "B", ul |-> "L",
     df |-> "F", dr |-> "R", db |-> "B", dl |-> "L"]

Cuboid3x3x4_solved == [outer |-> OuterCuboid3x3x4_solved, inner |-> InnerCuboid3x3x4_solved]

\* OuterCorners::u, r2, rw2, f2, fw2
OuterCorners_turn(c, face) ==
    CASE face = "u" -> [c EXCEPT !.ufl = c.ufr, !.ufr = c.ubr,
                                 !.ubr = c.ubl, !.ubl = c.ufl]
      [] face = "r2" -> [c EXCEPT !.ufr = c.dbr, !.dbr = c.ufr,
                                  !.ubr = c.dfr, !.dfr = c.ubr]
      [] face = "rw2" -> [c EXCEPT !.ufr = c.dbr, !.dbr = c.ufr,
                                   !.ubr = c.dfr, !.dfr = c.ubr,
                                   !.uc = c.dc, !.dc = c.uc]
      [] face = "f2" -> [c EXCEPT !.ufl = c.dfr, !.dfr = c.ufl,
                                  !.ufr = c.dfl, !.dfl = c.ufr]
      [] face = "fw2" -> [c EXCEPT !.ufl = c.dfr, !.dfr = c.ufl,
                                   !.ufr = c.dfl, !.dfl = c.ufr,
                                   !.uc = c.dc, !.dc = c.uc]

\* OuterEdges::u, r2, rw2, f2, fw2
OuterEdges_turn(e, face) ==
    CASE face = "u" -> [e EXCEPT !.uf = e.ur, !.ur = e.ub, !.ub = e.ul, !.ul = e.uf]
      [] face = "r2" -> [e EXCEPT !.ur = e.dr, !.dr = e.ur]
      [] face = "rw2" -> [e EXCEPT !.ur = e.dr, !.dr = e.ur,
                                   !.uf = e.db, !.db = e.uf,
                                   !.ub = e.df, !.df = e.ub]
      [] face = "f2" -> [e EXCEPT !.uf = e.df, !.df = e.uf]
      [] face = "fw2" -> [e EXCEPT !.uf = e.df, !.df = e.uf,
                                   !.ul = e.dr, !.dr = e.ul,
                                   !.ur = e.dl, !.dl = e.ur]

\* OuterCuboid3x3x4::u, uw, uww, r2, rw2, f2, fw2: uw and uww are u
OuterCuboid3x3x4_turn(o, face) ==
    LET f == IF face \in {"uw", "uww"} THEN "u" ELSE face
    IN  [corners |-> OuterCorners_turn(o.corners, f),
         edges |-> OuterEdges_turn(o.edges, f)]

\* InnerCuboid3x3x4::u, uw, uww, r2, rw2, f2, fw2
InnerCuboid3x3x4_turn(s, face) ==
    CASE face = "u" -> s
      [] face = "uw" -> [s EXCEPT !.uf = s.ur, !.ur = s.ub, !.ub = s.ul, !.ul = s.uf,
                                  !.ufr = s.ubr, !.ubr = s.ubl,
                                  !.ubl = s.ufl, !.ufl = s.ufr]
      [] face = "uww" -> [s EXCEPT !.uf = s.ur, !.ur = s.ub, !.ub = s.ul, !.ul = s.uf,
                                   !.ufr = s.ubr, !.ubr = s.ubl,
                                   !.ubl = s.ufl, !.ufl = s.ufr,
                                   !.df = s.dr, !.dr = s.db, !.db = s.dl, !.dl = s.df,
                                   !.dfr = s.dbr, !.dbr = s.dbl,
                                   !.dbl = s.dfl, !.dfl = s.dfr]
      [] face = "r2" -> [s EXCEPT !.ur = s.dr, !.dr = s.ur,
                                  !.ufr = s.dbr, !.dbr = s.ufr,
                                  !.ubr = s.dfr, !.dfr = s.ubr]
      [] face = "rw2" -> [s EXCEPT !.ur = s.dr, !.dr = s.ur,
                                   !.ufr = s.dbr, !.dbr = s.ufr,
                                   !.ubr = s.dfr, !.dfr = s.ubr,
                                   !.uf = s.db, !.db = s.uf,
                                   !.df = s.ub, !.ub = s.df]
      [] face = "f2" -> [s EXCEPT !.uf = s.df, !.df = s.uf,
                                  !.ufl = s.dfr, !.dfr = s.ufl,
                                  !.ufr = s.dfl, !.dfl = s.ufr]
      [] face = "fw2" -> [s EXCEPT !.uf = s.df, !.df = s.uf,
                                   !.ufl = s.dfr, !.dfr = s.ufl,
                                   !.ufr = s.dfl, !.dfl = s.ufr,
                                   !.ul = s.dr, !.dr = s.ul,
                                   !.ur = s.dl, !.dl = s.ur]

\* Cuboid3x3x4's Move::reverse
Cuboid3x3x4_reverse(m) ==
    IF Len(m) = 1 THEN m ELSE <<m[1], CubeMoveAmt_reverse(m[2])>>

\* <InnerCuboid3x3x4 as Solvable>::available_moves
InnerCuboid3x3x4_available_moves ==
    <<<<"R2">>, <<"Rw2">>, <<"F2">>, <<"Fw2">>,
      <<"Uw", "One">>, <<"Uw", "Two">>, <<"Uw", "Rev">>,
      <<"Uww", "One">>, <<"Uww", "Two">>, <<"Uww", "Rev">>>>

\* <OuterCuboid3x3x4 as Solvable>::available_moves
OuterCuboid3x3x4_available_moves ==
    <<<<"R2">>, <<"Rw2">>, <<"F2">>, <<"Fw2">>,
      <<"U", "One">>, <<"U", "Two">>, <<"U", "Rev">>>>

\* <Cuboid3x3x4 as Solvable>::available_moves
Cuboid3x3x4_available_moves ==
    <<<<"Rw2">>, <<"R2">>, <<"Fw2">>, <<"F2">>,
      <<"U", "One">>, <<"U", "Two">>, <<"U", "Rev">>,
      <<"Uw", "One">>, <<"Uw", "Two">>, <<"Uw", "Rev">>,
      <<"Uww", "One">>, <<"Uww", "Two">>, <<"Uww", "Rev">>>>

\* <InnerCuboid3x3x4 as Solvable>::apply, <OuterCuboid3x3x4 as
\* Solvable>::apply, <OuterCorners as Solvable>::apply and <OuterEdges as
\* Solvable>::apply: the same match on the move, each on its own turns
\* (uw and uww of OuterCorners and of OuterEdges are u)
Cuboid3x3x4_layer_apply(layer, s, m) ==
    LET outer_face(face) == IF face \in {"uw", "uww"} THEN "u" ELSE face
        turn(x, face) ==
            CASE layer = "inner" -> InnerCuboid3x3x4_turn(x, face)
              [] layer = "outer" -> OuterCuboid3x3x4_turn(x, face)
              [] layer = "corners" -> OuterCorners_turn(x, outer_face(face))
              [] layer = "edges" -> OuterEdges_turn(x, outer_face(face))
        face == CASE m[1] = "R2" -> "r2" [] m[1] = "Rw2" -> "rw2"
                  [] m[1] = "F2" -> "f2" [] m[1] = "Fw2" -> "fw2"
                  [] m[1] = "U" -> "u" [] m[1] = "Uw" -> "uw"
                  [] m[1] = "Uww" -> "uww"
    IN  IF Len(m) = 1 THEN turn(s, face)
        ELSE CASE m[2] = "One" -> turn(s, face)
               [] m[2] = "Two" -> turn(turn(s, face), face)
               [] m[2] = "Rev" -> turn(turn(turn(s, face), face), face)

\* <Cuboid3x3x4 as Solvable>::apply
Cuboid3x3x4_apply(s, m) ==
    [inner |-> Cuboid3x3x4_layer_apply("inner", s.inner, m),
     outer |-> Cuboid3x3x4_layer_apply("outer", s.outer, m)]

\* <Cuboid3x3x4 as Solvable>::is_redundant
Cuboid3x3x4_is_redundant(last_move, next_move) ==
    CASE last_move[1] = "Rw2" -> next_move[1] \in {"R2", "Rw2"}
      [] last_move[1] = "R2" -> next_move[1] = "R2"
      [] last_move[1] = "Fw2" -> next_move[1] \in {"F2", "Fw2"}
      [] last_move[1] = "F2" -> next_move[1] = "F2"
      [] last_move[1] = "U" -> next_move[1] = "U"
      [] last_move[1] = "Uw" -> next_move[1] \in {"Uw", "U"}
      [] last_move[1] = "Uww" -> next_move[1] \in {"Uww", "Uw", "U"}

InnerCuboid3x3x4_max_fuel == 13

OuterCuboid3x3x4_max_fuel == 13

Cuboid3x3x4_max_fuel == 19

\* the pack calls of a uniq_key in sequence, from the i-th value on:
\* *source = (*source << bits) + (self as u64)
\* (out is three words; it is read before the next call is begun)
RECURSIVE Cuboid3x3x4_pack_all(_, _, _, _, _)
Cuboid3x3x4_pack_all(variants, bits, out, vals, i) ==
    IF i > Len(vals) \/ out = <<>> THEN out
    ELSE Cuboid3x3x4_pack_all(variants, bits,
             U64_shl_add(out, bits, Discriminant(variants, vals[i])), vals, i + 1)

\* OuterCuboid3x3x4::uniq_key: OuterCorners::pack, then OuterEdges::pack
OuterCuboid3x3x4_uniq_key(o) ==
    LET c == o.corners
        e == o.edges
        corners == Cuboid3x3x4_pack_all(Cuboid3x3x4_OuterCornerCubelets, 3, <<0, 0, 0>>,
                       <<c.ufl, c.ufr, c.ubl, c.ubr, c.dfl, c.dfr>>, 1)
        center == Cuboid3x3x4_pack_all(Cuboid3x3x4_OuterCenterCubelets, 1, corners,
                       <<c.uc>>, 1)
    IN  Cuboid3x3x4_pack_all(Cuboid3x3x4_OuterEdgeCubelets, 3, center,
            <<e.uf, e.ul, e.ur, e.ub, e.df, e.dl, e.dr>>, 1)

\* InnerCuboid3x3x4::uniq_key
InnerCuboid3x3x4_uniq_key(s) ==
    LET corners == Cuboid3x3x4_pack_all(Cuboid3x3x4_InnerCornerCubelets, 3, <<0, 0, 0>>,
                       <<s.ufl, s.ufr, s.ubl, s.ubr, s.dfl, s.dfr, s.dbl>>, 1)
    IN  Cuboid3x3x4_pack_all(Cuboid3x3x4_InnerCenterCubelets, 2, corners,
            <<s.uf, s.ul, s.ur, s.ub, s.df, s.dl, s.dr>>, 1)

\* <Cuboid3x3x4 as SimpleStartState>::uniq_key
Cuboid3x3x4_uniq_key(s) ==
    <<InnerCuboid3x3x4_uniq_key(s.inner), OuterCuboid3x3x4_uniq_key(s.outer)>>

----------------------------------------------------------------------------
(* square_zero.rs; a move is <<"R2">>, <<"U", amt>> or <<"D", amt>>         *)

\* SquareZero::solved
SquareZero_solved ==
    [ufl |-> "UFL", ufr |-> "UFR", ubl |-> "UBL", ubr |-> "UBR",
     dfl |-> "DFL", dfr |-> "DFR", dbl |-> "DBL", dbr |-> "DBR",
     middle_flipped |-> FALSE]

\* SquareZero::u, d, r2
SquareZero_turn(s, face) ==
    CASE face = "u" -> [s EXCEPT !.ufl = s.ufr, !.ufr = s.ubr,
                                 !.ubr = s.ubl, !.ubl = s.ufl]
      [] face = "d" -> [s EXCEPT !.dfl = s.dbl, !.dbl = s.dbr,
                                 !.dbr = s.dfr, !.dfr = s.dfl]
      [] face = "r2" -> [s EXCEPT !.dfr = s.ubr, !.ubr = s.dfr,
                                  !.dbr = s.ufr, !.ufr = s.dbr,
                                  !.middle_flipped = ~s.middle_flipped]

\* SquareZero's Move::reverse
SquareZero_reverse(m) ==
    IF m[1] = "R2" THEN m ELSE <<m[1], CubeMoveAmt_reverse(m[2])>>

\* <SquareZero as Solvable>::available_moves
SquareZero_available_moves ==
    <<<<"R2">>,
      <<"U", "One">>, <<"U", "Two">>, <<"U", "Rev">>,
      <<"D", "One">>, <<"D", "Two">>, <<"D", "Rev">>>>

\* <SquareZero as Solvable>::apply
SquareZero_apply(s, m) ==
    IF m[1] = "R2" THEN SquareZero_turn(s, "r2")
    ELSE LET face == IF m[1] = "U" THEN "u" ELSE "d"
         IN  CASE m[2] = "One" -> SquareZero_turn(s, face)
               [] m[2] = "Two" -> SquareZero_turn(SquareZero_turn(s, face), face)
               [] m[2] = "Rev" ->
                     SquareZero_turn(SquareZero_turn(SquareZero_turn(s, face), face),
                                     face)

\* <SquareZero as Solvable>::is_redundant
SquareZero_is_redundant(last_move, next_move) ==
    CASE last_move[1] = "R2" -> next_move = <<"R2">>
      [] last_move[1] = "U" -> next_move[1] = "U"
      [] last_move[1] = "D" -> next_move[1] = "D"

----------------------------------------------------------------------------
(* ivy_cube.rs; a move is <<dir, amt>>, dir one of "UFL", "UBR", "DBL",     *)
(* "DFR" and amt "Cw" or "Ccw"                                              *)

\* IvyCube::solved_state: the f center is written CenterCubelet::D
IvyCube_solved_state ==
    [centers |-> [f |-> "D", u |-> "U", r |-> "R", l |-> "L", d |-> "D", b |-> "B"],
     corners |-> [ufl |-> "Normal", dfr |-> "Normal", ubr |-> "Normal",
                  dbl |-> "Normal"]]

\* IvyCube::ufl, dfr, ubr, dbl: the centers turn (CenterState::ufl, dfr,
\* ubr, dbl), the corner of that name goes cw
IvyCube_turn(s, dir) ==
    LET c == s.centers
        o == s.corners
    IN  CASE dir = "UFL" ->
                [centers |-> [c EXCEPT !.u = c.l, !.l = c.f, !.f = c.u],
                 corners |-> [o EXCEPT !.ufl = CornerOrientation_cw(o.ufl)]]
          [] dir = "DFR" ->
                [centers |-> [c EXCEPT !.f = c.d, !.d = c.r, !.r = c.f],
                 corners |-> [o EXCEPT !.dfr = CornerOrientation_cw(o.dfr)]]
          [] dir = "UBR" ->
                [centers |-> [c EXCEPT !.u = c.r, !.r = c.b, !.b = c.u],
                 corners |-> [o EXCEPT !.ubr = CornerOrientation_cw(o.ubr)]]
          [] dir = "DBL" ->
                [centers |-> [c EXCEPT !.l = c.b, !.b = c.d, !.d = c.l],
                 corners |-> [o EXCEPT !.dbl = CornerOrientation_cw(o.dbl)]]

\* IvyCube's Move::reverse
IvyCube_reverse(m) == <<m[1], CornerTwistAmt_reverse(m[2])>>

\* <IvyCube as Solvable>::available_moves
IvyCube_available_moves ==
    <<<<"UBR", "Cw">>, <<"UBR", "Ccw">>, <<"UFL", "Cw">>, <<"UFL", "Ccw">>,
      <<"DFR", "Cw">>, <<"DFR", "Ccw">>, <<"DBL", "Cw">>, <<"DBL", "Ccw">>>>

\* <IvyCube as Solvable>::apply
IvyCube_apply(s, m) ==
    IF m[2] = "Cw" THEN IvyCube_turn(s, m[1])
    ELSE IvyCube_turn(IvyCube_turn(s, m[1]), m[1])

\* <IvyCube as Solvable>::is_redundant: last_move.0 == next_move.0
IvyCube_is_redundant(last_move, next_move) == last_move[1] = next_move[1]

----------------------------------------------------------------------------
(* curvy_copter.rs; a move is <<edge>>, edge one of the twelve names "UF",  *)
(* ..., "BR"; a state is [edges, centers, corner_positions,                 *)
(* corner_orientations], each a record of the struct's fields               *)

\* what the method of a Move does, by the macro lines that define it:
\* flip_edge!(edge), swap_centers!(edge, a_1, a_2, b_1, b_2),
\* swap_corner_pos!(edge, corner_a, corner_b) and
\* swap_corner_orr!(edge, corner_a, a_swap, corner_b, b_swap)
CurvyCopter_swaps ==
    [UF |-> [edge |-> "uf", centers |-> <<"u_fl", "f_ur", "u_fr", "f_ul">>,
             pos |-> <<"fur", "ful">>, orr |-> <<"ful", "ccw", "fur", "cw">>],
     UL |-> [edge |-> "ul", centers |-> <<"u_bl", "l_uf", "u_fl", "l_ub">>,
             pos |-> <<"ful", "bul">>, orr |-> <<"ful", "cw", "bul", "ccw">>],
     UR |-> [edge |-> "ur", centers |-> <<"u_br", "r_uf", "u_fr", "r_ub">>,
             pos |-> <<"fur", "bur">>, orr |-> <<"fur", "ccw", "bur", "cw">>],
     UB |-> [edge |-> "ub", centers |-> <<"u_bl", "b_ur", "u_br", "b_ul">>,
             pos |-> <<"bur", "bul">>, orr |-> <<"bur", "ccw", "bul", "cw">>],
     DF |-> [edge |-> "df", centers |-> <<"d_fl", "f_dr", "d_fr", "f_dl">>,
             pos |-> <<"fdr", "fdl">>, orr |-> <<"fdl", "cw", "fdr", "ccw">>],
     DL |-> [edge |-> "dl", centers |-> <<"d_bl", "l_df", "d_fl", "l_db">>,
             pos |-> <<"fdl", "bdl">>, orr |-> <<"fdl", "ccw", "bdl", "cw">>],
     DR |-> [edge |-> "dr", centers |-> <<"d_br", "r_df", "d_fr", "r_db">>,
             pos |-> <<"fdr", "bdr">>, orr |-> <<"fdr", "cw", "bdr", "ccw">>],
     DB |-> [edge |-> "db", centers |-> <<"d_bl", "b_dr", "d_br", "b_dl">>,
             pos |-> <<"bdr", "bdl">>, orr |-> <<"bdr", "cw", "bdl", "ccw">>],
     FL |-> [edge |-> "fl", centers |-> <<"f_ul", "l_df", "f_dl", "l_uf">>,
             pos |-> <<"ful", "fdl">>,
             orr |-> <<"ful", "no_swap", "fdl", "no_swap">>],
     FR |-> [edge |-> "fr", centers |-> <<"f_ur", "r_df", "f_dr", "r_uf">>,
             pos |-> <<"fur", "fdr">>,
             orr |-> <<"fur", "no_swap", "fdr", "no_swap">>],
     BL |-> [edge |-> "bl", centers |-> <<"b_ul", "l_db", "b_dl", "l_ub">>,
             pos |-> <<"bul", "bdl">>,
             orr |-> <<"bul", "no_swap", "bdl", "no_swap">>],
     BR |-> [edge |-> "br", centers |-> <<"b_ur", "r_db", "b_dr", "r_ub">>,
             pos |-> <<"bur", "bdr">>,
             orr |-> <<"bur", "no_swap", "bdr", "no_swap">>]]

\* CurvyCopter::solved, of EdgeStates::solved, CenterStates::solved,
\* CornersPositionState::solved and CornersOrientationState::solved
CurvyCopter_solved ==
    [edges |->
        [uf |-> "Normal", ur |-> "Normal", ul |-> "Normal", ub |-> "Normal",
         df |-> "Normal", dr |-> "Normal", dl |-> "Normal", db |-> "Normal",
         fl |-> "Normal", fr |-> "Normal", bl |-> "Normal", br |-> "Normal"],
     centers |->
        [f_ul |-> "F", f_ur |-> "F", f_dl |-> "F", f_dr |-> "F",
         b_ul |-> "B", b_ur |-> "B", b_dl |-> "B", b_dr |-> "B",
         l_ub |-> "L", l_uf |-> "L", l_db |-> "L", l_df |-> "L",
         r_ub |-> "R", r_uf |-> "R", r_db |-> "R", r_df |-> "R",
         u_bl |-> "U", u_br |-> "U", u_fl |-> "U", u_fr |-> "U",
         d_bl |-> "D", d_br |-> "D", d_fl |-> "D", d_fr |-> "D"],
     corner_positions |->
        [ful |-> "FUL", fur |-> "FUR", fdl |-> "FDL", fdr |-> "FDR",
         bul |-> "BUL", bur |-> "BUR", bdl |-> "BDL", bdr |-> "BDR"],
     corner_orientations |->
        [ful |-> "Normal", fur |-> "Normal", fdl |-> "Normal", fdr |-> "Normal",
         bul |-> "Normal", bur |-> "Normal", bdl |-> "Normal", bdr |-> "Normal"]]

\* pass_through!: CurvyCopter::uf, ..., br, each part turned by the method
\* of the same name.  flip_edge!: the edge is flipped.  swap_centers!: a_1
\* and a_2 change places, and b_1 and b_2.  swap_corner_pos!: corner_a and
\* corner_b change places.  swap_corner_orr!: corner_a takes corner_b's
\* orientation after b_swap, corner_b takes corner_a's after a_swap.
CurvyCopter_turn(s, name) ==
    LET w == CurvyCopter_swaps[name]
        e == s.edges
        c == s.centers
        p == s.corner_positions
        o == s.corner_orientations
        swap(how, x) == CASE how = "cw" -> CornerOrientation_cw(x)
                          [] how = "ccw" -> CornerOrientation_ccw(x)
                          [] how = "no_swap" -> x
    IN  [edges |-> [e EXCEPT ![w.edge] = flipped(e[w.edge])],
         centers |-> [c EXCEPT ![w.centers[2]] = c[w.centers[1]],
                               ![w.centers[1]] = c[w.centers[2]],
                               ![w.centers[4]] = c[w.centers[3]],
                               ![w.centers[3]] = c[w.centers[4]]],
         corner_positions |-> [p EXCEPT ![w.pos[1]] = p[w.pos[2]],
                                        ![w.pos[2]] = p[w.pos[1]]],
         corner_orientations |->
             [o EXCEPT ![w.orr[1]] = swap(w.orr[4], o[w.orr[3]]),
                       ![w.orr[3]] = swap(w.orr[2], o[w.orr[1]])]]

\* CurvyCopter's Move::reverse: all moves are self inverse
CurvyCopter_reverse(m) == m

\* <CurvyCopter as Solvable>::available_moves
CurvyCopter_available_moves ==
    <<<<"UF">>, <<"UL">>, <<"UR">>, <<"UB">>,
      <<"DF">>, <<"DL">>, <<"DR">>, <<"DB">>,
      <<"FL">>, <<"FR">>, <<"BL">>, <<"BR">>>>

\* <CurvyCopter as Solvable>::apply
CurvyCopter_apply(s, m) == CurvyCopter_turn(s, m[1])

\* <CurvyCopter as Solvable>::is_redundant: for each last_move, the
\* next moves its match arm names
CurvyCopter_is_redundant(last_move, next_move) ==
    LET arms == [UF |-> {"UF"},
                 UL |-> {"UL"},
                 UR |-> {"UR", "UL"},
                 UB |-> {"UB", "UF"},
                 DF |-> {"DF", "UF", "UL", "UR", "UB"},
                 DL |-> {"DL", "UF", "UL", "UR", "UB"},
                 DR |-> {"DR", "UF", "UL", "UR", "UB", "DL"},
                 DB |-> {"DB", "UF", "UL", "UR", "UB", "DF"},
                 FL |-> {"FL", "UB", "UR", "DB", "DR"},
                 FR |-> {"FR", "UB", "UL", "DB", "DL", "FL"},
                 BL |-> {"BL", "UF", "UR", "DF", "DR", "FL", "FR"},
                 BR |-> {"BR", "UF", "UL", "DF", "DL", "FL", "FR", "BL"}]
    IN  next_move[1] \in arms[last_move[1]]

----------------------------------------------------------------------------
(* Dispatch on the puzzle type: the trait methods *)

\* State::start
Start(pz) == CASE pz.kind = "Toy" -> 0
               [] pz.kind = "Floppy1x2x2" -> Floppy1x2x2_solved
               [] pz.kind = "Floppy1x2x3" -> Floppy1x2x3_solved
               [] pz.kind = "Floppy1x3x3" -> Floppy1x3x3_solved
               [] pz.kind = "Cuboid2x2x3" -> Cuboid2x2x3_solved
               [] pz.kind = "DinoCube" -> DinoCube_solved_state
               [] pz.kind = "Floppy1xMxN" -> Floppy1xMxN_solved(pz.H, pz.W)
               [] pz.kind = "Cuboid2x3x3" -> Cuboid2x3x3_solved
               [] pz.kind = "RediCube" -> RediCube_solved
               [] pz.kind = "Bandaged3x3x3with1x2x3" -> Bandaged_solved
               [] pz.kind = "SquareOneShape" -> SquareOneShape_start
               [] pz.kind = "OuterCuboid3x3x4" -> OuterCuboid3x3x4_solved
               [] pz.kind = "InnerCuboid3x3x4" -> InnerCuboid3x3x4_solved
               [] pz.kind = "Cuboid3x3x4" -> Cuboid3x3x4_solved
               [] pz.kind = "OuterCorners" -> OuterCorners_solved
               [] pz.kind = "OuterEdges" -> OuterEdges_solved
               [] pz.kind = "SquareZero" -> SquareZero_solved
               [] pz.kind = "IvyCube" -> IvyCube_solved_state
               [] pz.kind = "CurvyCopter" -> CurvyCopter_solved

\* Solvable::available_moves, in the order the iterator yields them
AvailableMoves(pz, s) ==
    CASE pz.kind = "Toy" -> Toy_available_moves(pz, s)
      [] pz.kind = "Floppy1x2x2" -> Floppy1x2x2_available_moves
      [] pz.kind = "Floppy1x2x3" -> Floppy1x2x3_available_moves
      [] pz.kind = "Floppy1x3x3" -> Floppy1x3x3_available_moves
      [] pz.kind = "Cuboid2x2x3" -> Cuboid2x2x3_available_moves
      [] pz.kind = "DinoCube" -> DinoCube_available_moves
      [] pz.kind = "Floppy1xMxN" -> Floppy1xMxN_available_moves(pz.H, pz.W)
      [] pz.kind = "Cuboid2x3x3" -> Cuboid2x3x3_available_moves
      [] pz.kind = "RediCube" -> RediCube_available_moves
      [] pz.kind = "Bandaged3x3x3with1x2x3" -> Bandaged_available_moves
      [] pz.kind = "OuterCuboid3x3x4" -> OuterCuboid3x3x4_available_moves
      [] pz.kind = "InnerCuboid3x3x4" -> InnerCuboid3x3x4_available_moves
      [] pz.kind = "Cuboid3x3x4" -> Cuboid3x3x4_available_moves
      [] pz.kind \in {"OuterCorners", "OuterEdges"} -> OuterCuboid3x3x4_available_moves
      [] pz.kind = "SquareZero" -> SquareZero_available_moves
      [] pz.kind = "IvyCube" -> IvyCube_available_moves
      [] pz.kind = "CurvyCopter" -> CurvyCopter_available_moves

\* Solvable::apply
Apply(pz, s, m) ==
    CASE pz.kind = "Toy" -> m
      [] pz.kind = "Floppy1x2x2" -> Floppy1x2x2_apply(s, m)
      [] pz.kind = "Floppy1x2x3" -> Floppy1x2x3_apply(s, m)
      [] pz.kind = "Floppy1x3x3" -> Floppy1x3x3_apply(s, m)
      [] pz.kind = "Cuboid2x2x3" -> Cuboid2x2x3_apply(s, m)
      [] pz.kind = "DinoCube" -> DinoCube_apply(s, m)
      [] pz.kind = "Floppy1xMxN" -> Floppy1xMxN_apply(s, m)
      [] pz.kind = "Cuboid2x3x3" -> Cuboid2x3x3_apply(s, m)
      [] pz.kind = "RediCube" -> RediCube_apply(s, m)
      [] pz.kind = "Bandaged3x3x3with1x2x3" -> Bandaged_apply(s, m)
      [] pz.kind = "OuterCuboid3x3x4" -> Cuboid3x3x4_layer_apply("outer", s, m)
      [] pz.kind = "InnerCuboid3x3x4" -> Cuboid3x3x4_layer_apply("inner", s, m)
      [] pz.kind = "Cuboid3x3x4" -> Cuboid3x3x4_apply(s, m)
      [] pz.kind = "OuterCorners" -> Cuboid3x3x4_layer_apply("corners", s, m)
      [] pz.kind = "OuterEdges" -> Cuboid3x3x4_layer_apply("edges", s, m)
      [] pz.kind = "SquareZero" -> SquareZero_apply(s, m)
      [] pz.kind = "IvyCube" -> IvyCube_apply(s, m)
      [] pz.kind = "CurvyCopter" -> CurvyCopter_apply(s, m)

\* State::uniq_key
UniqKey(pz, s) ==
    CASE pz.kind = "DinoCube" -> DinoCube_uniq_key(s)
      [] pz.kind = "RediCube" -> RediCube_uniq_key(s)
      [] pz.kind = "SquareOneShape" -> SquareOneShape_uniq_key(s)
      [] pz.kind = "Bandaged3x3x3with1x2x3" -> Bandaged_uniq_key(s)
      [] pz.kind = "OuterCuboid3x3x4" -> OuterCuboid3x3x4_uniq_key(s)
      [] pz.kind = "InnerCuboid3x3x4" -> InnerCuboid3x3x4_uniq_key(s)
      [] pz.kind = "Cuboid3x3x4" -> Cuboid3x3x4_uniq_key(s)
      [] OTHER -> s

\* State::should_count_as_config: the trait's default, or for a Toy
\* implementation that overrides it, membership in its `counted` set
ShouldCountAsConfig(pz, s) ==
    IF "counted" \in DOMAIN pz THEN s \in pz.counted ELSE TRUE

\* State::neighbors: the states handed to to_add, in call order
\* (SimpleStartState: one per available move)
Neighbors(pz, s) ==
    IF pz.kind = "Floppy1x3x3" THEN Floppy1x3x3_neighbors(s)
    ELSE IF pz.kind = "SquareOneShape" THEN SquareOneShape_neighbors(s)
    ELSE LET ms == AvailableMoves(pz, s)
         IN  [i \in 1..Len(ms) |-> Apply(pz, s, ms[i])]

----------------------------------------------------------------------------
(* Distances in the move graph, defined without reference to the engines *)

\* the states at most n moves away from a state of S
RECURSIVE Within(_, _, _)
Within(pz, S, n) ==
    IF n <= 0 THEN (IF n = 0 THEN S ELSE {})
    ELSE LET W == Within(pz, S, n - 1)
         IN  W \cup UNION {Range(Neighbors(pz, s)) : s \in W}

\* the states exactly d moves away from the nearest state of S
AtDistance(pz, S, d) == Within(pz, S, d) \ Within(pz, S, d - 1)

\* the least number of moves from a state of W to s, -1 if there is no way
RECURSIVE DistanceFrom(_, _, _, _)
DistanceFrom(pz, W, s, d) ==
    IF s \in W THEN d
    ELSE LET N == W \cup UNION {Range(Neighbors(pz, w)) : w \in W}
         IN  IF N = W THEN -1 ELSE DistanceFrom(pz, N, s, d + 1)

\* the breadth-first depth of s from the start state
Distance(pz, s) == DistanceFrom(pz, {Start(pz)}, s, 0)

\* everything reachable from S
RECURSIVE Reachable(_, _)
Reachable(pz, S) ==
    LET N == S \cup UNION {Range(Neighbors(pz, s)) : s \in S}
    IN  IF N = S THEN S ELSE Reachable(pz, N)

----------------------------------------------------------------------------
(* RandomInit::random_state: every state it can return *)

Floppy1x2x2_random_state ==
    {[ul |-> c[1], ur |-> c[2], dr |-> c[3]] : c \in Shuffles(<<"UL", "UR", "DR">>)}

Floppy1x2x3_random_state ==
    {[ul |-> c[1], ur |-> c[2], dl |-> c[3], dr |-> c[4], rc_solved |-> o] :
        c \in Shuffles(<<"UL", "UR", "DL", "DR">>), o \in EdgeOrientations}

\* a random_state whose four orientations are each drawn freely
Floppy1x3x3_random_state_free_flips ==
    {LET cubelets == shuffle_any(p, <<"UL", "UR", "DL", "DR">>).shuffled
     IN  [ul |-> cubelets[1], ur |-> cubelets[2], dl |-> cubelets[3],
          dr |-> cubelets[4],
          lc_solved |-> d[1], rc_solved |-> d[2],
          uc_solved |-> d[3], dc_solved |-> d[4]] :
        p \in any_permutation(4), d \in [1..4 -> EdgeOrientations]}

Floppy1x3x3_random_state ==
    {LET sh == shuffle_any(p, <<"UL", "UR", "DL", "DR">>)
         cubelets == sh.shuffled
         orientations == flips_with_parity(d, sh.parity)
     IN  [ul |-> cubelets[1], ur |-> cubelets[2], dl |-> cubelets[3],
          dr |-> cubelets[4],
          lc_solved |-> orientations[1], rc_solved |-> orientations[2],
          uc_solved |-> orientations[3], dc_solved |-> orientations[4]] :
        p \in any_permutation(4), d \in [1..3 -> EdgeOrientations]}

----------------------------------------------------------------------------
(* Dispatch on the puzzle type: Solvable, CanReverse, RandomInit *)

Floppies == {"Floppy1x2x2", "Floppy1x2x3", "Floppy1x3x3"}

\* Solvable::is_solved
IsSolved(pz, s) ==
    CASE pz.kind = "Toy" -> s = 0
      [] pz.kind = "Floppy1x2x2" -> s = Floppy1x2x2_solved
      [] pz.kind = "Floppy1x2x3" -> s = Floppy1x2x3_solved
      [] pz.kind = "Floppy1x3x3" -> s = Floppy1x3x3_solved
      [] pz.kind = "Cuboid2x2x3" -> s = Cuboid2x2x3_solved
      [] pz.kind = "DinoCube" -> DinoCube_is_solved(s)
      [] pz.kind = "RediCube" -> s = RediCube_solved
      [] pz.kind = "OuterCuboid3x3x4" -> s = OuterCuboid3x3x4_solved
      [] pz.kind = "InnerCuboid3x3x4" -> s = InnerCuboid3x3x4_solved
      [] pz.kind = "Cuboid3x3x4" -> s = Cuboid3x3x4_solved

\* <Floppy1xMxN<H, W> as Solvable>::is_redundant
Floppy1xMxN_is_redundant(last_move, next_move) == last_move = next_move

\* <Cuboid2x3x3 as Solvable>::is_redundant
Cuboid2x3x3_is_redundant(last_move, next_move) ==
    CASE last_move[1] = "Rw2" -> next_move = <<"R2">> \/ next_move = <<"Rw2">>
      [] last_move[1] = "R2" -> next_move = <<"R2">>
      [] last_move[1] = "Fw2" -> next_move = <<"F2">> \/ next_move = <<"Fw2">>
      [] last_move[1] = "F2" -> next_move = <<"F2">>
      [] last_move[1] = "U" -> next_move[1] = "U"

\* <Bandaged3x3x3with1x2x3 as Solvable>::is_redundant
Bandaged_is_redundant(last_move, next_move) ==
    CASE last_move[1] = "U" -> next_move[1] = "U"
      [] last_move[1] = "R" -> next_move[1] = "R"
      [] last_move[1] = "Rw" -> next_move[1] = "Rw" \/ next_move[1] = "R"

\* <SquareOneShape as Solvable>::is_redundant; a move is <<"U", amt>>,
\* <<"D", amt>> or <<"Slice">>
SquareOneShape_is_redundant(last_move, next_move) ==
    CASE last_move[1] = "U" -> next_move[1] = "U"
      [] last_move[1] = "D" -> next_move[1] \in {"U", "D"}
      [] last_move[1] = "Slice" -> next_move = <<"Slice">>

\* a predicate that calls every move but a repetition redundant
IsRedundantEager(pz, last_move, next_move) == last_move # next_move

\* Solvable::is_redundant
IsRedundant(pz, last_move, next_move) ==
    IF pz.red = "default" THEN FALSE
    ELSE CASE pz.kind \in Floppies -> last_move = next_move
           [] pz.kind = "Cuboid2x2x3" -> Cuboid2x2x3_is_redundant(last_move, next_move)
           [] pz.kind = "DinoCube" -> DinoCube_is_redundant(last_move, next_move)
           [] pz.kind = "RediCube" -> RediCube_is_redundant(last_move, next_move)
           [] pz.kind = "Cuboid3x3x4" -> Cuboid3x3x4_is_redundant(last_move, next_move)
           [] pz.kind = "Floppy1xMxN" -> Floppy1xMxN_is_redundant(last_move, next_move)
           [] pz.kind = "Cuboid2x3x3" -> Cuboid2x3x3_is_redundant(last_move, next_move)
           [] pz.kind = "Bandaged3x3x3with1x2x3" ->
                 Bandaged_is_redundant(last_move, next_move)
           [] pz.kind = "SquareOneShape" ->
                 SquareOneShape_is_redundant(last_move, next_move)
           [] pz.kind = "SquareZero" -> SquareZero_is_redundant(last_move, next_move)
           [] pz.kind = "IvyCube" -> IvyCube_is_redundant(last_move, next_move)
           [] pz.kind = "CurvyCopter" -> CurvyCopter_is_redundant(last_move, next_move)
           [] OTHER -> FALSE

\* a safety depth of one move, whatever the puzzle
MaxFuelOne(pz) == 1

\* Solvable::max_fuel
MaxFuel(pz) ==
    CASE pz.kind = "Toy" -> pz.max_fuel
      [] pz.kind = "Floppy1x2x2" -> Floppy1x2x2_max_fuel
      [] pz.kind = "Floppy1x2x3" -> Floppy1x2x3_max_fuel
      [] pz.kind = "Floppy1x3x3" -> Floppy1x3x3_max_fuel
      [] pz.kind = "Cuboid2x2x3" -> Cuboid2x2x3_max_fuel
      [] pz.kind = "DinoCube" -> DinoCube_max_fuel
      [] pz.kind = "RediCube" -> RediCube_max_fuel
      [] pz.kind = "OuterCuboid3x3x4" -> OuterCuboid3x3x4_max_fuel
      [] pz.kind = "InnerCuboid3x3x4" -> InnerCuboid3x3x4_max_fuel
      [] pz.kind = "Cuboid3x3x4" -> Cuboid3x3x4_max_fuel

\* CanReverse::reverse
Reverse(pz, m) == CASE pz.kind \in Floppies -> m
                    [] pz.kind = "Cuboid2x2x3" -> Cuboid2x2x3_reverse(m)
                    [] pz.kind = "DinoCube" -> DinoCube_reverse(m)
                    [] pz.kind = "Floppy1xMxN" -> Floppy1xMxN_reverse(m)
                    [] pz.kind = "Cuboid2x3x3" -> Cuboid2x3x3_reverse(m)
                    [] pz.kind = "RediCube" -> RediCube_reverse(m)
                    [] pz.kind = "Bandaged3x3x3with1x2x3" -> Bandaged_reverse(m)
                    [] pz.kind \in {"OuterCuboid3x3x4", "InnerCuboid3x3x4", "Cuboid3x3x4",
                                    "OuterCorners", "OuterEdges"} ->
                          Cuboid3x3x4_reverse(m)
                    [] pz.kind = "SquareZero" -> SquareZero_reverse(m)
                    [] pz.kind = "IvyCube" -> IvyCube_reverse(m)
                    [] pz.kind = "CurvyCopter" -> CurvyCopter_reverse(m)

\* the puzzles too large to visit whole
LargePuzzles == {"Cuboid2x2x3", "DinoCube"}

\* the states of Cuboid2x2x3 that the model visits
Cuboid2x2x3_near == Within(Puzzle("Cuboid2x2x3"), {Cuboid2x2x3_solved}, NearDepth)

\* the states of DinoCube that the model visits
DinoCube_near ==
    Within(Puzzle("DinoCube"), {DinoCube_solved_state}, DinoNearDepth)
    \cup Within(Puzzle("DinoCube"), {DinoCube_solved_mirrored}, DinoMirrorDepth)

\* the states of a large puzzle that the model visits
Near(pz) == IF pz.kind = "DinoCube" THEN DinoCube_near ELSE Cuboid2x2x3_near

\* the index in arr of each entry of an arrangement of arr, from 0
ShuffleOutcome(arr, arranged) ==
    [i \in 1..Len(arr) |-> (CHOOSE j \in 1..Len(arr) : arr[j] = arranged[i]) - 1]

\* the arrangements of cubelets that have the shape of a Cuboid2x2x3
Cuboid2x2x3_arrangements ==
    [ufl : Range(Cuboid2x2x3_corners), ufr : Range(Cuboid2x2x3_corners),
     ubl : Range(Cuboid2x2x3_corners), ubr : Range(Cuboid2x2x3_corners),
     dfl : Range(Cuboid2x2x3_corners), dfr : Range(Cuboid2x2x3_corners),
     dbl : Range(Cuboid2x2x3_corners), dbr : Range(Cuboid2x2x3_corners),
     flc : Range(Cuboid2x2x3_centers), frc : Range(Cuboid2x2x3_centers),
     brc : Range(Cuboid2x2x3_centers)]

\* the arrangements of cubelets that have the shape of a DinoCube
DinoCube_arrangements ==
    [ul : Range(DinoCube_edges), ub : Range(DinoCube_edges), ur : Range(DinoCube_edges),
     fl : Range(DinoCube_edges), fr : Range(DinoCube_edges), bl : Range(DinoCube_edges),
     br : Range(DinoCube_edges), dl : Range(DinoCube_edges), db : Range(DinoCube_edges),
     dr : Range(DinoCube_edges), df : Range(DinoCube_edges)]

\* the outcomes of the two shuffles of Cuboid2x2x3::random_state that
\* arrange the cubelets as s has them
Cuboid2x2x3_outcome(s) ==
    <<ShuffleOutcome(Cuboid2x2x3_corners,
         <<s.ufl, s.ufr, s.ubl, s.ubr, s.dfl, s.dfr, s.dbl, s.dbr>>),
      ShuffleOutcome(Cuboid2x2x3_centers, <<s.flc, s.frc, s.brc>>)>>

\* the outcome of the shuffle of DinoCube::random_state that arranges the
\* edges as s has them, when with_parity leaves it alone
DinoCube_outcome(s) ==
    ShuffleOutcome(DinoCube_edges,
        <<s.ul, s.ub, s.ur, s.fl, s.fr, s.bl, s.br, s.dl, s.db, s.dr, s.df>>)

\* the outcomes of the two shuffles of Cuboid2x2x3::random_state that the
\* model hands in: those that arrange the cubelets as a state of Near does
Cuboid2x2x3_outcomes == {Cuboid2x2x3_outcome(s) : s \in Near(Puzzle("Cuboid2x2x3"))}

\* the outcomes of the shuffle of DinoCube::random_state that the model
\* hands in: those that arrange the edges as a state of Near does, and the
\* odd outcomes that with_parity turns into these
DinoCube_outcomes ==
    LET even == {DinoCube_outcome(s) : s \in Near(Puzzle("DinoCube"))}
    IN  even \cup {compose(swap_0_1(Len(DinoCube_edges)), p) : p \in even}

\* RandomInit::random_state: every state that some outcome of the shuffles
\* gives; a Toy puzzle may start anywhere
RandomStates(pz) ==
    CASE pz.kind = "Toy" -> ToyPositions
      [] pz.kind = "Cuboid2x2x3" ->
            {s \in Cuboid2x2x3_arrangements :
                \E o \in {Cuboid2x2x3_outcome(s)} :
                    /\ o[1] \in any_permutation(Len(Cuboid2x2x3_corners))
                    /\ o[2] \in any_permutation(Len(Cuboid2x2x3_centers))
                    /\ Cuboid2x2x3_random_state(o[1], o[2]) = s}
      [] pz.kind = "DinoCube" ->
            {s \in DinoCube_arrangements :
                \E out \in {DinoCube_outcome(s)} :
                    /\ out \in any_permutation(Len(DinoCube_edges))
                    /\ DinoCube_random_state(out) = s}
      [] pz.kind = "Floppy1x2x2" -> Floppy1x2x2_random_state
      [] pz.kind = "Floppy1x2x3" -> Floppy1x2x3_random_state
      [] pz.kind = "Floppy1x3x3" -> Floppy1x3x3_random_state

\* no generator: solve is called on a state the caller has
NoRng == [kind |-> "none", out |-> <<>>]

\* a generator whose draws are taken when random_state makes them
AnyRng == [kind |-> "any", out |-> <<>>]

\* a generator given by the outcomes its shuffles will have
SeededRng(out) == [kind |-> "outcomes", out |-> out]

\* the generators handed to random_scramble
Rngs(pz) ==
    CASE pz.kind = "Cuboid2x2x3" -> {SeededRng(o) : o \in Cuboid2x2x3_outcomes}
      [] pz.kind = "DinoCube" -> {SeededRng(o) : o \in DinoCube_outcomes}
      [] OTHER -> {AnyRng}

\* State::random_state(rng) of a generator given by its outcomes
random_state(pz, g) ==
    CASE pz.kind = "Cuboid2x2x3" -> Cuboid2x2x3_random_state(g.out[1], g.out[2])
      [] pz.kind = "DinoCube" -> DinoCube_random_state(g.out)

----------------------------------------------------------------------------
(* cubesearch.rs: enumerate_state_space_started *)

\* the variables of a run that is not in progress
EnumIdle ==
    /\ e_pz = Puzzle("none") /\ starts = <<>> /\ to_process = <<>> /\ iter_pos = 0
    /\ next_stage = <<>> /\ all_seen = {} /\ counts = <<>> /\ next_distance = 0
    /\ this_stage_new_configs = 0 /\ e_pc = "idle"
    /\ e_forder = "source" /\ e_norder = "source" /\ expanded = <<>>

SolveIdle ==
    /\ puzzle = Puzzle("none") /\ heuristic = 0 /\ cache_depth = 0 /\ input = 0 /\ origin = "none"
    /\ fuel = 0 /\ passes = <<>> /\ result = [tag |-> "none"] /\ scramble = <<>> /\ rng = NoRng
    /\ pc = "idle"

MoveIdle ==
    /\ m_pz = Puzzle("none") /\ m_s = 0 /\ m_move = <<>> /\ m_after = 0 /\ m_back = 0
    /\ m_depth = 0 /\ m_pc = "idle"

RandIdle == r_op = "none" /\ r_arg = <<>> /\ r_ret = <<>> /\ r_pc = "idle"

BulkIdle ==
    /\ b_pz = Puzzle("none") /\ b_h = 0 /\ b_n = 0 /\ b_states = <<>>
    /\ b_task = <<>> /\ b_len = <<>> /\ b_c = <<>> /\ completed = 0
    /\ b_stdout = <<>> /\ b_ret = [tag |-> "none"] /\ b_pc = "idle"

DfsIdle == d_stack = <<>> /\ d_moves = <<>> /\ d_ev = [kind |-> "none"] /\ d_evals = {}

EnumPuzzles == {Toy(E, 0) : E \in ToyGraphs}
               \cup {Puzzle("Floppy1x2x2"), Puzzle("Floppy1x2x3"), Puzzle("Floppy1x3x3"),
                     Floppy1xMxN(1, 1)}

EnumStarts(pz) == IF pz.kind = "Toy" THEN SeqsUpTo(ToyPositions, MaxStarts)
                  ELSE {<<Start(pz)>>}

\* a sequence in the order the code walks it ("source") or back to front
Ordered(order, seq) ==
    IF order = "source" THEN seq
    ELSE [i \in 1..Len(seq) |-> seq[Len(seq) + 1 - i]]

\* the entry of enumerate_state_space_started for a puzzle of P, the
\* frontier and the neighbours walked in orders of O
EnumBegin(P, O) ==
    /\ e_pz \in P
    /\ starts \in EnumStarts(e_pz)
    /\ e_forder \in O
    /\ e_norder \in O
    /\ to_process = Ordered(e_forder, starts)
    /\ iter_pos = 1
    /\ next_stage = <<>>
    /\ all_seen = {}
    /\ counts = <<>>
    /\ next_distance = 0
    /\ this_stage_new_configs = 0
    /\ e_pc = "for"
    /\ expanded = <<>>
    /\ SolveIdle
    /\ MoveIdle
    /\ RandIdle
    /\ DfsIdle
    /\ BulkIdle

EnumInit == EnumBegin(EnumPuzzles, {"source"})

\* the same loop, except that a state whose key was seen is expanded again
EnumRecount ==
    /\ e_pc = "for"
    /\ iter_pos <= Len(to_process)
    /\ UniqKey(e_pz, to_process[iter_pos]) \in all_seen
    /\ this_stage_new_configs' = this_stage_new_configs + 1
    /\ next_stage' = next_stage \o Ordered(e_norder, Neighbors(e_pz, to_process[iter_pos]))
    /\ expanded' = Append(expanded, to_process[iter_pos])
    /\ iter_pos' = iter_pos + 1
    /\ UNCHANGED <<e_pz, starts, to_process, all_seen, counts, next_distance, e_pc,
                   e_forder, e_norder>>

\* for state in to_process.iter(): the key was already in all_seen
EnumSkipSeen ==
    /\ e_pc = "for"
    /\ iter_pos <= Len(to_process)
    /\ UniqKey(e_pz, to_process[iter_pos]) \in all_seen
    /\ iter_pos' = iter_pos + 1
    /\ UNCHANGED <<e_pz, starts, to_process, next_stage, all_seen, counts,
                   next_distance, this_stage_new_configs, e_pc, e_forder, e_norder,
                   expanded>>

\* the same loop, except that a new state that does not count is not
\* expanded either
EnumExpandCounted ==
    /\ e_pc = "for"
    /\ iter_pos <= Len(to_process)
    /\ LET st == to_process[iter_pos]
       IN  /\ UniqKey(e_pz, st) \notin all_seen
           /\ all_seen' = all_seen \cup {UniqKey(e_pz, st)}
           /\ this_stage_new_configs' =
                 IF ShouldCountAsConfig(e_pz, st)
                 THEN this_stage_new_configs + 1
                 ELSE this_stage_new_configs
           /\ next_stage' =
                 IF ShouldCountAsConfig(e_pz, st)
                 THEN next_stage \o Ordered(e_norder, Neighbors(e_pz, st))
                 ELSE next_stage
           /\ expanded' =
                 IF ShouldCountAsConfig(e_pz, st) THEN Append(expanded, st)
                 ELSE expanded
    /\ iter_pos' = iter_pos + 1
    /\ UNCHANGED <<e_pz, starts, to_process, counts, next_distance, e_pc,
                   e_forder, e_norder>>

\* for state in to_process.iter(): a new key; count it and emit its neighbors
EnumExpand ==
    /\ e_pc = "for"
    /\ iter_pos <= Len(to_process)
    /\ LET st == to_process[iter_pos]
       IN  /\ UniqKey(e_pz, st) \notin all_seen
           /\ all_seen' = all_seen \cup {UniqKey(e_pz, st)}
           /\ this_stage_new_configs' =
                 IF ShouldCountAsConfig(e_pz, st)
                 THEN this_stage_new_configs + 1
                 ELSE this_stage_new_configs
           /\ next_stage' = next_stage \o Ordered(e_norder, Neighbors(e_pz, st))
           /\ expanded' = Append(expanded, st)
    /\ iter_pos' = iter_pos + 1
    /\ UNCHANGED <<e_pz, starts, to_process, counts, next_distance, e_pc,
                   e_forder, e_norder>>

\* end of the for loop with nothing counted: break
EnumBreak ==
    /\ e_pc = "for"
    /\ iter_pos > Len(to_process)
    /\ this_stage_new_configs = 0
    /\ e_pc' = "returned"
    /\ UNCHANGED <<e_pz, starts, to_process, iter_pos, next_stage, all_seen,
                   counts, next_distance, this_stage_new_configs, e_forder, e_norder,
                   expanded>>

\* end of the for loop: record the stage, swap the frontiers
EnumNextStage ==
    /\ e_pc = "for"
    /\ iter_pos > Len(to_process)
    /\ this_stage_new_configs # 0
    /\ counts' = [d \in DOMAIN counts \cup {next_distance} |->
                     IF d = next_distance THEN this_stage_new_configs
                     ELSE counts[d]]
    /\ next_distance' = next_distance + 1
    /\ to_process' = Ordered(e_forder, next_stage)
    /\ next_stage' = <<>>
    /\ iter_pos' = 1
    /\ this_stage_new_configs' = 0
    /\ UNCHANGED <<e_pz, starts, all_seen, e_pc, e_forder, e_norder, expanded>>

EnumNext == (EnumSkipSeen \/ EnumExpand \/ EnumBreak \/ EnumNextStage)
            /\ UNCHANGED <<solveVars, moveVars, randVars, bulkVars, dfsVars>>

SpecEnum == EnumInit /\ [][EnumNext]_vars

\* C1: when every state counts and keys are injective, the returned
\* histogram maps each distance d to the number of distinct states whose
\* least number of moves from the nearest start is d (a start listed twice
\* counts once), and its keys are exactly 0..k, k the greatest distance at
\* which a state exists, with no zero entry.
C1_Histogram ==
    (e_pc = "returned" /\ \A s \in Reachable(e_pz, Range(starts)) :
                              ShouldCountAsConfig(e_pz, s))
    => /\ DOMAIN counts = 0..(next_distance - 1)
       /\ \A d \in DOMAIN counts :
             /\ counts[d] = Cardinality(AtDistance(e_pz, Range(starts), d))
             /\ counts[d] > 0
       /\ AtDistance(e_pz, Range(starts), next_distance) = {}

\* a Toy puzzle with one state at depth 0 and two at depth 1, its start
\* listed twice: the histogram is {0: 1, 1: 2}
C1_Witness ==
    /\ e_pc = "returned"
    /\ e_pz.kind = "Toy"
    /\ starts = <<0, 0>>
    /\ DOMAIN counts = {0, 1}
    /\ counts[0] = 1 /\ counts[1] = 2
    /\ Cardinality(Reachable(e_pz, {0})) = 3

----------------------------------------------------------------------------
(* cubesearch.rs: the enumerator on State implementations that override   *)
(* should_count_as_config or pack their key, under every walking order    *)

Orders == {"source", "reversed"}

OrderPuzzles == {ToyCounting(E, C) : E \in ToyGraphs, C \in SUBSET ToyPositions}
                \cup {Puzzle("Floppy1x2x2"), Puzzle("Floppy1x2x3"),
                      Puzzle("SquareOneShape")}

OrderInit == EnumBegin(OrderPuzzles, Orders)

SpecOrders == OrderInit /\ [][EnumNext]_vars

\* the multiset of the keys of a state's neighbours
NeighbourKeys(pz, s) ==
    LET ks == [i \in DOMAIN Neighbors(pz, s) |-> UniqKey(pz, Neighbors(pz, s)[i])]
    IN  [k \in Range(ks) |-> Cardinality({i \in DOMAIN ks : ks[i] = k})]

\* C11: two SquareOneShape states reachable from start() that have the same
\* uniq_key are the same state, so they agree on can_slice and on the
\* multiset of their neighbours' keys.
C11_SquareOneKeyFaithful ==
    e_pz.kind = "SquareOneShape" =>
        \A a \in Range(to_process) : \A b \in Range(to_process) :
            SquareOneShape_uniq_key(a) = SquareOneShape_uniq_key(b)
            => /\ a = b
               /\ SquareOneShape_can_slice(a) = SquareOneShape_can_slice(b)
               /\ NeighbourKeys(e_pz, a) = NeighbourKeys(e_pz, b)

\* C13: when the enumerator returns, the graph is exhausted: the key of
\* every state reachable from the start states is in the seen set (a key is
\* inserted exactly when its state is expanded), whatever
\* should_count_as_config answers.
C13_Exhausted ==
    e_pc = "returned" =>
        \A s \in Reachable(e_pz, Range(starts)) : UniqKey(e_pz, s) \in all_seen

\* the sum of the entries of a histogram
RECURSIVE SumCounts(_)
SumCounts(h) ==
    IF DOMAIN h = {} THEN 0
    ELSE LET d == CHOOSE x \in DOMAIN h : TRUE
         IN  h[d] + SumCounts([x \in DOMAIN h \ {d} |-> h[x]])

\* one step of the for loop, as the claim describes it
C14_Step ==
    (e_pc = "for" /\ iter_pos <= Len(to_process)) =>
        LET st == to_process[iter_pos]
        IN  IF UniqKey(e_pz, st) \in all_seen
            THEN /\ this_stage_new_configs' = this_stage_new_configs
                 /\ next_stage' = next_stage
                 /\ all_seen' = all_seen
            ELSE /\ next_stage' = next_stage \o Ordered(e_norder, Neighbors(e_pz, st))
                 /\ all_seen' = all_seen \cup {UniqKey(e_pz, st)}
                 /\ ~ShouldCountAsConfig(e_pz, st)
                        => this_stage_new_configs' = this_stage_new_configs

\* C14: a state whose key is new and that does not count adds nothing to
\* the histogram, yet its neighbours are pushed to the next frontier; a
\* state whose key was seen is skipped, nothing counted and nothing pushed;
\* so no key is expanded twice, the expanded keys are the seen set, and the
\* histogram and the running count together count the expanded states that
\* should count.
C14_ExpandOnce ==
    /\ [](/\ Cardinality({UniqKey(e_pz, expanded[i]) : i \in DOMAIN expanded})
                = Len(expanded)
          /\ {UniqKey(e_pz, expanded[i]) : i \in DOMAIN expanded} = all_seen
          /\ SumCounts(counts) + this_stage_new_configs =
                Cardinality({i \in DOMAIN expanded :
                                ShouldCountAsConfig(e_pz, expanded[i])}))
    /\ [][C14_Step]_vars

\* a new state that does not count has just been expanded: nothing was
\* counted in this stage, its neighbours are the next frontier
C14_Witness ==
    /\ e_pc = "for"
    /\ iter_pos = 2
    /\ "counted" \in DOMAIN e_pz
    /\ ~ShouldCountAsConfig(e_pz, to_process[1])
    /\ expanded # <<>>
    /\ expanded[Len(expanded)] = to_process[1]
    /\ this_stage_new_configs = 0
    /\ next_stage # <<>>
    /\ next_stage = Ordered(e_norder, Neighbors(e_pz, to_process[1]))

\* the for loop of one stage over to_process[lo..hi], walked in the code's
\* order; acc is [all_seen, this_stage_new_configs, next_stage]
RECURSIVE enumerate_for(_, _, _, _, _)
enumerate_for(pz, tp, lo, hi, acc) ==
    IF lo > hi THEN acc
    ELSE IF lo = hi
    THEN LET k == UniqKey(pz, tp[lo])
         IN  IF k \in acc.all_seen THEN acc
             ELSE [all_seen |-> acc.all_seen \cup {k},
                   this_stage_new_configs |->
                       IF ShouldCountAsConfig(pz, tp[lo])
                       THEN acc.this_stage_new_configs + 1
                       ELSE acc.this_stage_new_configs,
                   next_stage |-> acc.next_stage \o Neighbors(pz, tp[lo])]
    ELSE LET mid == (lo + hi) \div 2
             first == enumerate_for(pz, tp, lo, mid, acc)
         IN  IF first.all_seen # {}
             THEN enumerate_for(pz, tp, mid + 1, hi, first)
             ELSE first

\* the outer loop: one stage after the other until a stage counts nothing
RECURSIVE enumerate_loop(_, _, _, _, _)
enumerate_loop(pz, tp, seen, cnts, dist) ==
    LET r == enumerate_for(pz, tp, 1, Len(tp),
                 [all_seen |-> seen, this_stage_new_configs |-> 0, next_stage |-> <<>>])
    IN  IF r.this_stage_new_configs = 0 THEN cnts
        ELSE enumerate_loop(pz, r.next_stage, r.all_seen,
                            (dist :> r.this_stage_new_configs) @@ cnts, dist + 1)

\* fn enumerate_state_space_started: the histogram it returns
enumerate_state_space_started(pz, sts) == enumerate_loop(pz, sts, {}, <<>>, 0)

\* C12: for every enumerated puzzle type the returned histogram is the same
\* whatever the order in which a frontier is processed and a state's
\* neighbours are emitted: it is the histogram of the code's own order.
C12_OrderIndependent ==
    e_pc = "returned" => counts = enumerate_state_space_started(e_pz, starts)

----------------------------------------------------------------------------
(* idasearch.rs and idasearch/heuristic_helpers.rs: heuristics *)

\* fn no_heuristic
no_heuristic == [kind |-> "no_heuristic", stored |-> <<>>, fallback_depth |-> 0]

\* a closure Fn(&T) -> usize, given as the table of its values
Closure(table) == [kind |-> "closure", stored |-> table, fallback_depth |-> 0]

\* the body of `for s in to_process.drain(..)` for the lo-th to the hi-th
\* state drained, run on acc = [seen, out, next_state]; the range is halved,
\* and the first half finished (its seen set is read) before the second is
\* begun, so that the evaluation nests no deeper than the range's logarithm
RECURSIVE bounded_cache_drain(_, _, _, _, _, _)
bounded_cache_drain(pz, depth, drained, lo, hi, acc) ==
    IF lo > hi THEN acc
    ELSE IF lo = hi
    THEN LET s == drained[lo]
             key == UniqKey(pz, s)
         IN  IF key \in acc.seen THEN acc
             ELSE [seen |-> acc.seen \cup {key},
                   out |-> (key :> depth) @@ acc.out,
                   next_state |-> acc.next_state \o Neighbors(pz, s)]
    ELSE LET mid == (lo + hi) \div 2
             first == bounded_cache_drain(pz, depth, drained, lo, mid, acc)
         IN  IF first.seen # {}
             THEN bounded_cache_drain(pz, depth, drained, mid + 1, hi, first)
             ELSE first

\* `for depth in 0..=max_depth`, from `depth` on
RECURSIVE bounded_cache_for(_, _, _, _, _, _)
bounded_cache_for(pz, depth, max_depth, todo, seen, out) ==
    IF depth > max_depth THEN out
    ELSE LET r == bounded_cache_drain(pz, depth, todo, 1, Len(todo),
                      [seen |-> seen, out |-> out, next_state |-> <<>>])
         IN  IF r.next_state = <<>> THEN r.out
             ELSE bounded_cache_for(pz, depth + 1, max_depth, r.next_state,
                                    r.seen, r.out)

\* a cache whose fallback is max_depth itself
bounded_cache_low_fallback(pz, max_depth) ==
    [kind |-> "BoundedStateCache",
     stored |-> bounded_cache_for(pz, 0, max_depth, <<Start(pz)>>, {}, <<>>),
     fallback_depth |-> max_depth]

\* a cache whose fallback is max_depth + 2
bounded_cache_high_fallback(pz, max_depth) ==
    [kind |-> "BoundedStateCache",
     stored |-> bounded_cache_for(pz, 0, max_depth, <<Start(pz)>>, {}, <<>>),
     fallback_depth |-> max_depth + 2]

\* a cache that stores only the states should_count_as_config accepts
bounded_cache_counted_only(pz, max_depth) ==
    LET out == bounded_cache_for(pz, 0, max_depth, <<Start(pz)>>, {}, <<>>)
    IN  [kind |-> "BoundedStateCache",
         stored |-> [k \in {c \in DOMAIN out : ShouldCountAsConfig(pz, c)} |-> out[k]],
         fallback_depth |-> max_depth + 1]

\* fn bounded_cache
bounded_cache(pz, max_depth) ==
    [kind |-> "BoundedStateCache",
     stored |-> bounded_cache_for(pz, 0, max_depth, <<Start(pz)>>, {}, <<>>),
     fallback_depth |-> max_depth + 1]

\* <BoundedStateCache as Heuristic>::estimated_remaining_cost
BoundedStateCache_estimated_remaining_cost(pz, h, t) ==
    IF UniqKey(pz, t) \in DOMAIN h.stored THEN h.stored[UniqKey(pz, t)]
    ELSE h.fallback_depth

\* <<bounded_cache::<S>(0), ..., bounded_cache::<S>(max_depth)>>, appended to acc
RECURSIVE bounded_caches(_, _, _)
bounded_caches(pz, max_depth, acc) ==
    IF Len(acc) > max_depth THEN acc
    ELSE bounded_caches(pz, max_depth, Append(acc, bounded_cache(pz, Len(acc))))

\* the max_depth of the three caches of cuboid_3x3x4::make_heuristic
Cuboid3x3x4_outer_depth == 11

Cuboid3x3x4_inner_depth == 11

Cuboid3x3x4_total_depth == 7

\* bounded_cache::<S>(max_depth) with its passes 0..=unfolded carried out:
\* max_depth, the number of the last pass carried out, and the entries
\* these passes store
Cuboid3x3x4_cache(pz, max_depth, unfolded) ==
    [max_depth |-> max_depth,
     passes |-> Min({max_depth, unfolded}),
     first |-> bounded_cache(pz, Min({max_depth, unfolded})).stored]

\* cuboid_3x3x4::make_heuristic, up to the closure: the three caches it
\* builds, the passes 0..=layer_passes of the two layer caches and the
\* passes 0..=total_passes of the whole-state cache carried out
Cuboid3x3x4_make_heuristic(layer_passes, total_passes) ==
    [kind |-> "Cuboid3x3x4",
     outer |-> Cuboid3x3x4_cache(Puzzle("OuterCuboid3x3x4"),
                                 Cuboid3x3x4_outer_depth, layer_passes),
     inner |-> Cuboid3x3x4_cache(Puzzle("InnerCuboid3x3x4"),
                                 Cuboid3x3x4_inner_depth, layer_passes),
     total |-> Cuboid3x3x4_cache(Puzzle("Cuboid3x3x4"),
                                 Cuboid3x3x4_total_depth, total_passes)]

\* what bounded_cache::<S>(c.max_depth) answers for a state whose key the
\* passes carried out do not hold.  The passes go breadth-first from
\* start(), and a move is undone by its reverse (C9), so that pass
\* c.passes + j stores the key of a state exactly when j is the least
\* number of moves that lead from it to a state whose key the passes
\* carried out hold; B are the states that `depth - c.passes` moves lead
\* to.  When no pass up to max_depth stores the key, the answer is the
\* fallback max_depth + 1.
RECURSIVE bounded_cache_later_pass(_, _, _, _)
bounded_cache_later_pass(pz, c, B, depth) ==
    IF depth > c.max_depth THEN c.max_depth + 1
    ELSE IF \E x \in B : UniqKey(pz, x) \in DOMAIN c.first THEN depth
    ELSE bounded_cache_later_pass(pz, c, UNION {Range(Neighbors(pz, x)) : x \in B},
                                  depth + 1)

\* bounded_cache::<S>(c.max_depth).estimated_remaining_cost(t).  A pass of
\* bounded_cache never replaces what an earlier pass stored, so an entry
\* of the passes carried out is the entry of the whole cache.
Cuboid3x3x4_cache_cost(pz, c, t) ==
    IF UniqKey(pz, t) \in DOMAIN c.first THEN c.first[UniqKey(pz, t)]
    ELSE bounded_cache_later_pass(pz, c, Range(Neighbors(pz, t)), c.passes + 1)

\* the costs o, i and t of the closure of make_heuristic: of the outer
\* cache on state.outer, of the inner cache on state.inner and of the
\* whole-state cache on state
Cuboid3x3x4_costs(h, state) ==
    LET asked == <<<<Puzzle("OuterCuboid3x3x4"), h.outer, state.outer>>,
                   <<Puzzle("InnerCuboid3x3x4"), h.inner, state.inner>>,
                   <<Puzzle("Cuboid3x3x4"), h.total, state>>>>
    IN  [k \in 1..3 |-> Cuboid3x3x4_cache_cost(asked[k][1], asked[k][2], asked[k][3])]

\* a closure that returns the cost of the whole-state cache
Cuboid3x3x4_total_only(c) == c[3]

\* usize::max
usize_max(a, b) == IF a >= b THEN a ELSE b

\* o.max(i).max(t) of the costs <<o, i, t>>
Cuboid3x3x4_max(c) == usize_max(usize_max(c[1], c[2]), c[3])

\* the closure make_heuristic returns
Cuboid3x3x4_closure(h, state) == Cuboid3x3x4_max(Cuboid3x3x4_costs(h, state))

\* Heuristic::estimated_remaining_cost
estimated_remaining_cost(pz, h, t) ==
    CASE h.kind = "no_heuristic" -> 0
      [] h.kind = "closure" -> h.stored[t]
      [] h.kind = "BoundedStateCache" ->
            BoundedStateCache_estimated_remaining_cost(pz, h, t)

----------------------------------------------------------------------------
(* idasearch.rs: solve *)

Last(s) == s[Len(s)]

Pop(s) == SubSeq(s, 1, Len(s) - 1)

\* fn dfs; dfs_for is its `for m in state.available_moves()` from the i-th move on.
\* Both return the SearchResult and moves_so_far as the call leaves it.
RECURSIVE dfs(_, _, _, _, _), dfs_for(_, _, _, _, _, _)
dfs(pz, h, st, moves_so_far, rem_fuel) ==
    IF IsSolved(pz, st) THEN [sr |-> "Found", moves |-> moves_so_far]
    ELSE dfs_for(pz, h, st, moves_so_far, rem_fuel, 1)

dfs_for(pz, h, st, moves_so_far, rem_fuel, i) ==
    LET ms == AvailableMoves(pz, st)
    IN  IF i > Len(ms) THEN [sr |-> "NotFound", moves |-> moves_so_far]
        ELSE LET m == ms[i]
                 next == Apply(pz, st, m)
             IN  IF moves_so_far # <<>> /\ IsRedundant(pz, Last(moves_so_far), m)
                 THEN dfs_for(pz, h, st, moves_so_far, rem_fuel, i + 1)
                 ELSE IF estimated_remaining_cost(pz, h, next) + 1 > rem_fuel
                 THEN dfs_for(pz, h, st, moves_so_far, rem_fuel, i + 1)
                 ELSE LET sr_child == dfs(pz, h, next, Append(moves_so_far, m),
                                          rem_fuel - 1)
                      IN  IF sr_child.sr = "Found" THEN sr_child
                          ELSE dfs_for(pz, h, st, Pop(sr_child.moves), rem_fuel, i + 1)

\* `for fuel in 0..=max_fuel` of solve, from budget f on
RECURSIVE solve_for(_, _, _, _)
solve_for(pz, h, st, f) ==
    IF f > MaxFuel(pz) THEN [tag |-> "OutOfGas", max_fuel |-> MaxFuel(pz)]
    ELSE LET sr == dfs(pz, h, st, <<>>, f)
         IN  IF sr.sr = "Found" THEN [tag |-> "Ok", moves |-> sr.moves]
             ELSE solve_for(pz, h, st, f + 1)

\* fn solve
solve(pz, h, st) == solve_for(pz, h, st, 0)

\* the moves reversed, their order kept
reversed_moves_only(pz, solution) ==
    [i \in 1..Len(solution) |-> Reverse(pz, solution[i])]

\* the tail of random_scramble: reverse the order and the moves themselves
reversed_solution(pz, solution) ==
    [i \in 1..Len(solution) |-> Reverse(pz, solution[Len(solution) + 1 - i])]

----------------------------------------------------------------------------
(* The solver and the scramble generator at work *)

SolvePuzzles ==
    {Toy(E, f) : E \in ToyGraphs, f \in 0..ToyMaxFuel}
    \cup {Puzzle(k) : k \in Floppies \cup LargePuzzles}

Init ==
    /\ puzzle \in SolvePuzzles
    /\ heuristic = 0
    /\ cache_depth = 0
    /\ input = Start(puzzle)
    /\ origin = "start"
    /\ fuel = 0
    /\ passes = <<>>
    /\ result = [tag |-> "none"]
    /\ scramble = <<>>
    /\ rng \in {NoRng} \cup Rngs(puzzle)
    /\ pc = "new"
    /\ EnumIdle
    /\ MoveIdle
    /\ RandIdle
    /\ DfsIdle
    /\ BulkIdle

\* the caller passes &no_heuristic
UseNoHeuristic ==
    /\ pc = "new"
    /\ heuristic' = no_heuristic
    /\ pc' = "setup"
    /\ UNCHANGED <<puzzle, cache_depth, input, origin, fuel, passes, result, scramble, rng>>

\* the caller passes a closure of its own
UseClosure ==
    /\ pc = "new"
    /\ puzzle.kind = "Toy"
    /\ \E table \in [ToyPositions -> 0..MaxEstimate] : heuristic' = Closure(table)
    /\ pc' = "setup"
    /\ UNCHANGED <<puzzle, cache_depth, input, origin, fuel, passes, result, scramble, rng>>

\* the max_depth values handed to bounded_cache::<S>
CacheDepths(pz) ==
    IF pz.kind = "DinoCube" THEN 0..DinoNearDepth ELSE 0..MaxCacheDepth

\* the caller builds bounded_cache::<S>(max_depth)
UseBoundedCache ==
    /\ pc = "new"
    /\ puzzle.kind # "Cuboid2x2x3"
    /\ \E max_depth \in CacheDepths(puzzle) :
          /\ heuristic' = bounded_cache(puzzle, max_depth)
          /\ cache_depth' = max_depth
    /\ pc' = "setup"
    /\ UNCHANGED <<puzzle, input, origin, fuel, passes, result, scramble, rng>>

\* a state reached from the start by one more move
Twist ==
    /\ pc = "setup"
    /\ origin \in {"start", "twist"}
    /\ rng.kind = "none"
    /\ \E m \in Range(AvailableMoves(puzzle, input)) :
          /\ input' = Apply(puzzle, input, m)
          /\ puzzle.kind \in LargePuzzles => input' \in Near(puzzle)
    /\ origin' = "twist"
    /\ UNCHANGED <<puzzle, heuristic, cache_depth, fuel, passes, result, scramble, rng, pc>>

\* random_scramble: let s = State::random_state(rng)
RandomState ==
    /\ pc = "setup"
    /\ origin = "start"
    /\ rng.kind # "none"
    /\ IF rng.kind = "outcomes"
       THEN input' = random_state(puzzle, rng)
       ELSE input' \in RandomStates(puzzle)
    /\ origin' = "random_state"
    /\ UNCHANGED <<puzzle, heuristic, cache_depth, fuel, passes, result, scramble, rng, pc>>

\* a loop that starts at fuel 1
SolveEnterFromOne ==
    /\ pc = "setup"
    /\ pc' = "for"
    /\ fuel' = 1
    /\ UNCHANGED <<puzzle, heuristic, cache_depth, input, origin, passes, result, scramble, rng>>

\* solve is entered: the loop starts at fuel 0
SolveEnter ==
    /\ pc = "setup"
    /\ pc' = "for"
    /\ fuel' = 0
    /\ UNCHANGED <<puzzle, heuristic, cache_depth, input, origin, passes, result, scramble, rng>>

\* a pass that returns Ok whatever dfs found
SolvePassAlwaysOk ==
    /\ pc = "for"
    /\ fuel <= MaxFuel(puzzle)
    /\ passes' = Append(passes, fuel)
    /\ result' = [tag |-> "Ok",
                  moves |-> dfs(puzzle, heuristic, input, <<>>, fuel).moves]
    /\ pc' = "returned"
    /\ UNCHANGED <<puzzle, heuristic, cache_depth, input, origin, fuel, scramble, rng>>

\* one pass of the loop of solve
SolvePass ==
    /\ pc = "for"
    /\ fuel <= MaxFuel(puzzle)
    /\ passes' = Append(passes, fuel)
    /\ LET sr == dfs(puzzle, heuristic, input, <<>>, fuel)
       IN  IF sr.sr = "Found"
           THEN /\ result' = [tag |-> "Ok", moves |-> sr.moves]
                /\ pc' = "returned"
                /\ fuel' = fuel
           ELSE /\ fuel' = fuel + 1
                /\ UNCHANGED <<result, pc>>
    /\ UNCHANGED <<puzzle, heuristic, cache_depth, input, origin, scramble, rng>>

\* an exhausted loop that reports the budget it stopped at
SolveOutOfGasLoopValue ==
    /\ pc = "for"
    /\ fuel > MaxFuel(puzzle)
    /\ result' = [tag |-> "OutOfGas", max_fuel |-> fuel]
    /\ pc' = "returned"
    /\ UNCHANGED <<puzzle, heuristic, cache_depth, input, origin, fuel, passes, scramble, rng>>

\* the loop of solve is exhausted
SolveOutOfGas ==
    /\ pc = "for"
    /\ fuel > MaxFuel(puzzle)
    /\ result' = [tag |-> "OutOfGas", max_fuel |-> MaxFuel(puzzle)]
    /\ pc' = "returned"
    /\ UNCHANGED <<puzzle, heuristic, cache_depth, input, origin, fuel, passes, scramble, rng>>

\* random_scramble turns the solution around
Scramble ==
    /\ pc = "returned"
    /\ origin = "random_state"
    /\ puzzle.kind # "Toy"
    /\ result.tag = "Ok"
    /\ scramble' = reversed_solution(puzzle, result.moves)
    /\ pc' = "scrambled"
    /\ UNCHANGED <<puzzle, heuristic, cache_depth, input, origin, fuel, passes, result, rng>>

Next ==
    (UseNoHeuristic \/ UseClosure \/ UseBoundedCache \/ Twist \/ RandomState
     \/ SolveEnter \/ SolvePass \/ SolveOutOfGas \/ Scramble)
    /\ UNCHANGED <<enumVars, moveVars, randVars, bulkVars, dfsVars>>

Spec == Init /\ [][Next]_vars

----------------------------------------------------------------------------
(* Properties of solve *)

\* the moves applied in order, from the i-th on
RECURSIVE ApplyAll(_, _, _, _)
ApplyAll(pz, s, moves, i) ==
    IF i > Len(moves) THEN s
    ELSE ApplyAll(pz, Apply(pz, s, moves[i]), moves, i + 1)

\* every move, from the i-th on, is offered by the state it is applied to
RECURSIVE AllAvailable(_, _, _, _)
AllAvailable(pz, s, moves, i) ==
    IF i > Len(moves) THEN TRUE
    ELSE /\ moves[i] \in Range(AvailableMoves(pz, s))
         /\ AllAvailable(pz, Apply(pz, s, moves[i]), moves, i + 1)

\* C2: on the three floppy puzzles, for every state reachable from the
\* solved state, solve with no_heuristic returns Ok with a path as long as
\* the breadth-first depth of the state.
C2_ShortestPath ==
    (/\ pc = "returned"
     /\ puzzle.kind \in Floppies
     /\ heuristic = no_heuristic
     /\ origin \in {"start", "twist"})
    => /\ result.tag = "Ok"
       /\ Len(result.moves) = Distance(puzzle, input)

\* the deepest state of Floppy1x2x3 is solved in six moves
C2_Witness ==
    /\ pc = "returned"
    /\ puzzle.kind = "Floppy1x2x3"
    /\ heuristic = no_heuristic
    /\ origin = "twist"
    /\ result.tag = "Ok"
    /\ Len(result.moves) = 6
    /\ Distance(puzzle, input) = 6

\* C3: whenever solve returns Ok(moves), whatever the heuristic, the moves
\* applied in order to the state end in a solved state, each move is offered
\* by the state it is applied to, and there are at most max_fuel() of them.
C3_ValidSolution ==
    (pc = "returned" /\ result.tag = "Ok")
    => /\ IsSolved(puzzle, ApplyAll(puzzle, input, result.moves, 1))
       /\ AllAvailable(puzzle, input, result.moves, 1)
       /\ Len(result.moves) <= MaxFuel(puzzle)

\* a closure that overestimates at the solved position, and a solution
\* that is only found on the third pass
C3_Witness ==
    /\ pc = "returned"
    /\ heuristic.kind = "closure"
    /\ heuristic.stored[0] = 1
    /\ result.tag = "Ok"
    /\ Len(result.moves) = 1
    /\ passes = <<0, 1, 2>>

\* C4: solve returns OutOfGas exactly when the dfs pass fails for every
\* budget 0..max_fuel(); it reports max_fuel(); the budgets of the passes
\* run are 0, 1, 2, ... each once and none above max_fuel().
C4_OutOfGas ==
    /\ \A i \in DOMAIN passes : passes[i] = i - 1 /\ passes[i] <= MaxFuel(puzzle)
    /\ pc = "returned" =>
          /\ result.tag = "OutOfGas" =>
                /\ result.max_fuel = MaxFuel(puzzle)
                /\ Len(passes) = MaxFuel(puzzle) + 1
                /\ \A f \in 0..MaxFuel(puzzle) :
                      dfs(puzzle, heuristic, input, <<>>, f).sr = "NotFound"
          /\ result.tag = "Ok" =>
                /\ fuel <= MaxFuel(puzzle)
                /\ dfs(puzzle, heuristic, input, <<>>, fuel).sr = "Found"

\* a Toy puzzle with max_fuel() = 0 and a state one move from solved
C4_Witness ==
    /\ pc = "returned"
    /\ puzzle.kind = "Toy"
    /\ puzzle.max_fuel = 0
    /\ heuristic = no_heuristic
    /\ input = 1
    /\ <<1, 0>> \in puzzle.edges
    /\ result = [tag |-> "OutOfGas", max_fuel |-> 0]
    /\ passes = <<0>>

\* C5: the estimate of bounded_cache(D) for a state reachable from the
\* start is its breadth-first distance when that is at most D and D + 1
\* otherwise; for a state whose key was never stored it is D + 1.
C5_CacheExact ==
    (pc = "setup" /\ heuristic.kind = "BoundedStateCache")
    => LET W == Within(puzzle, {Start(puzzle)}, cache_depth)
           est == estimated_remaining_cost(puzzle, heuristic, input)
       IN  /\ input \in W => est = Distance(puzzle, input)
           /\ input \notin W => est = cache_depth + 1
           /\ UniqKey(puzzle, input) \notin DOMAIN heuristic.stored
                 => est = cache_depth + 1

\* a Floppy1x3x3 state three moves out, looked up in a cache of depth two
C5_Witness ==
    /\ pc = "setup"
    /\ puzzle.kind = "Floppy1x3x3"
    /\ heuristic.kind = "BoundedStateCache"
    /\ cache_depth = 2
    /\ Distance(puzzle, input) = 3
    /\ estimated_remaining_cost(puzzle, heuristic, input) = 3

\* C10: on the three floppy puzzles, for every state reachable from the
\* solved state, solve returns a path of the same length when is_redundant
\* is the always-false default.
C10_RedundancyNeutral ==
    (/\ pc = "returned"
     /\ puzzle.kind \in Floppies
     /\ origin \in {"start", "twist"})
    => LET plain == solve([puzzle EXCEPT !.red = "default"], heuristic, input)
       IN  /\ result.tag = "Ok"
           /\ plain.tag = "Ok"
           /\ Len(plain.moves) = Len(result.moves)

\* the deepest state of Floppy1x3x3, where the pruning has skipped moves
C10_Witness ==
    /\ pc = "returned"
    /\ puzzle.kind = "Floppy1x3x3"
    /\ puzzle.red = "own"
    /\ origin = "twist"
    /\ result.tag = "Ok"
    /\ Len(result.moves) = 8

\* C7: on the puzzles whose is_solved accepts only the start state, when
\* solve returns Ok(p) for a state that random_state returned, the
\* sequence random_scramble builds from p, applied move by move to the
\* solved start state, yields that state.
C7_ScrambleRoundTrip ==
    (pc = "scrambled" /\ puzzle.kind \in Floppies \cup {"Cuboid2x2x3"})
    => ApplyAll(puzzle, Start(puzzle), scramble, 1) = input

\* a Cuboid2x2x3 scramble of two moves, one of them a quarter turn
C7_Witness ==
    /\ pc = "scrambled"
    /\ puzzle.kind = "Cuboid2x2x3"
    /\ origin = "random_state"
    /\ Len(scramble) = 2
    /\ \E i \in 1..2 : scramble[i] = <<"U", "One">>
    /\ input # Start(puzzle)

\* the least number of moves from a state of W to a solved state
RECURSIVE MovesToSolved(_, _, _)
MovesToSolved(pz, W, d) ==
    IF \E w \in W : IsSolved(pz, w) THEN d
    ELSE MovesToSolved(pz, W \cup UNION {Range(Neighbors(pz, w)) : w \in W}, d + 1)

\* C6: the bounded cache of DinoCube, built from solved_state, never
\* estimates more than the least number of moves to a state that is_solved
\* accepts.
C6_DinoHeuristicAdmissible ==
    (/\ pc = "setup"
     /\ puzzle.kind = "DinoCube"
     /\ heuristic.kind = "BoundedStateCache")
    => estimated_remaining_cost(puzzle, heuristic, input)
          <= MovesToSolved(puzzle, {input}, 0)

\* C8: for DinoCube with its bounded cache, the sequence random_scramble
\* returns, applied in order to solved_state, reproduces the state that
\* random_state returned.
C8_DinoScrambleRoundTrip ==
    (/\ pc = "scrambled"
     /\ puzzle.kind = "DinoCube"
     /\ heuristic.kind = "BoundedStateCache")
    => ApplyAll(puzzle, DinoCube_solved_state, scramble, 1) = input

----------------------------------------------------------------------------
(* moves.rs: a move and its reverse, for the puzzles whose Move is CanReverse *)

\* the <H, W> taken, of those main.rs instantiates
FloppySizes == {<<1, 1>>, <<1, 2>>, <<2, 2>>, <<2, 3>>}

\* every Solvable of src/ whose Move is CanReverse: the thirteen Move types,
\* and each of the five puzzles that share the Move of cuboid_3x3x4.rs
MovePuzzles ==
    {Puzzle(k) : k \in Floppies \cup {"Cuboid2x2x3", "Cuboid2x3x3", "DinoCube",
                                     "RediCube", "Bandaged3x3x3with1x2x3",
                                     "OuterCuboid3x3x4", "InnerCuboid3x3x4",
                                     "Cuboid3x3x4", "OuterCorners", "OuterEdges",
                                     "SquareZero", "IvyCube", "CurvyCopter"}}
    \cup {Floppy1xMxN(hw[1], hw[2]) : hw \in FloppySizes}

MoveInit ==
    /\ m_pz \in MovePuzzles
    /\ m_s = Start(m_pz)
    /\ m_move = <<>>
    /\ m_after = 0
    /\ m_back = 0
    /\ m_depth = 0
    /\ m_pc = "at"
    /\ EnumIdle
    /\ SolveIdle
    /\ RandIdle
    /\ DfsIdle
    /\ BulkIdle

\* one of available_moves() is applied
MoveApply ==
    /\ m_pc = "at"
    /\ \E i \in DOMAIN AvailableMoves(m_pz, m_s) :
          LET m == AvailableMoves(m_pz, m_s)[i]
          IN  /\ m_move' = m
              /\ m_after' = Apply(m_pz, m_s, m)
    /\ m_pc' = "applied"
    /\ UNCHANGED <<m_pz, m_s, m_back, m_depth>>

\* the reverse of the move is applied to the result
MoveReverse ==
    /\ m_pc = "applied"
    /\ m_back' = Apply(m_pz, m_after, Reverse(m_pz, m_move))
    /\ m_pc' = "reversed"
    /\ UNCHANGED <<m_pz, m_s, m_move, m_after, m_depth>>

\* the next move is applied to the result of this one
MoveOn ==
    /\ m_pc = "reversed"
    /\ m_depth < MoveWalkDepth
    /\ m_s' = m_after
    /\ m_depth' = m_depth + 1
    /\ m_move' = <<>>
    /\ m_after' = 0
    /\ m_back' = 0
    /\ m_pc' = "at"
    /\ UNCHANGED m_pz

MoveNext == (MoveApply \/ MoveReverse \/ MoveOn) /\ UNCHANGED <<enumVars, solveVars, randVars, bulkVars, dfsVars>>

SpecMoves == MoveInit /\ [][MoveNext]_vars

\* C9: for every puzzle whose Move is CanReverse, the reverse of a move of
\* available_moves(s) is among available_moves(apply(s, m)) and applying it
\* there gives s back; One and Rev, and Cw and Ccw, are each other's
\* reverse, Two is its own, and three cw twists of a RediCube corner (three
\* cycle_cw calls) change nothing.
C9_ReverseUndoes ==
    /\ m_pc = "reversed"
          => /\ \E i \in DOMAIN AvailableMoves(m_pz, m_after) :
                    AvailableMoves(m_pz, m_after)[i] = Reverse(m_pz, m_move)
             /\ m_back = m_s
    /\ CubeMoveAmt_reverse("One") = "Rev" /\ CubeMoveAmt_reverse("Rev") = "One"
    /\ CubeMoveAmt_reverse("Two") = "Two"
    /\ CornerTwistAmt_reverse("Cw") = "Ccw" /\ CornerTwistAmt_reverse("Ccw") = "Cw"
    /\ (m_pc = "at" /\ m_pz.kind = "RediCube")
          => \A corner \in DOMAIN RediCube_cycled :
                RediCube_twist(RediCube_twist(RediCube_twist(m_s, corner), corner),
                               corner) = m_s
    /\ LET once == cycle_cw(1, 2, 3)
           twice == cycle_cw(once[1], once[2], once[3])
       IN  cycle_cw(twice[1], twice[2], twice[3]) = <<1, 2, 3>>

C9_Witness ==
    /\ m_pc = "reversed"
    /\ m_pz.kind = "Bandaged3x3x3with1x2x3"
    /\ m_depth = MoveWalkDepth
    /\ m_move = <<"Rw", "One">>
    /\ m_after # m_s
    /\ m_back = m_s

----------------------------------------------------------------------------
(* The functions of random_helpers.rs and random_helpers/permutations.rs, *)
(* and uniq_key of bandaged_3x3x3_1x2x3.rs: one call each                 *)

Bandaged_near ==
    Within(Puzzle("Bandaged3x3x3with1x2x3"), {Bandaged_solved}, BandagedNearDepth)

TwoParity == {"Even", "Odd"}

RandArgs(op) ==
    CASE op = "parity" ->
            {[p |-> q] : q \in UNION {any_permutation(n) : n \in 0..MaxPermLen}}
      [] op = "with_parity" ->
            {[out |-> q, desired |-> d] :
                q \in UNION {any_permutation(n) : n \in 2..MaxPermLen}, d \in TwoParity}
      [] op = "flips_with_parity" ->
            {[drawn |-> f, desired |-> d] :
                f \in SeqsUpTo(EdgeOrientations, MaxFlips - 1), d \in TwoParity}
      [] op = "uniq_key" -> {[s |-> t] : t \in Bandaged_near}

RandInit ==
    /\ r_op \in {"parity", "with_parity", "flips_with_parity", "uniq_key"}
    /\ r_arg \in RandArgs(r_op)
    /\ r_ret = <<>>
    /\ r_pc = "call"
    /\ EnumIdle
    /\ SolveIdle
    /\ MoveIdle
    /\ BulkIdle
    /\ DfsIdle

\* p.parity()
ParityCall ==
    /\ r_pc = "call" /\ r_op = "parity"
    /\ r_ret' = parity(r_arg.p)
    /\ r_pc' = "returned"
    /\ UNCHANGED <<r_op, r_arg>>

\* with_parity(rng, len, desired), the shuffle having given r_arg.out
WithParityCall ==
    /\ r_pc = "call" /\ r_op = "with_parity"
    /\ r_ret' = with_parity(r_arg.out, r_arg.desired)
    /\ r_pc' = "returned"
    /\ UNCHANGED <<r_op, r_arg>>

\* flips_with_parity(rng, len, desired), the draws having given r_arg.drawn
FlipsCall ==
    /\ r_pc = "call" /\ r_op = "flips_with_parity"
    /\ r_ret' = flips_with_parity(r_arg.drawn, r_arg.desired)
    /\ r_pc' = "returned"
    /\ UNCHANGED <<r_op, r_arg>>

\* s.uniq_key() on a Bandaged3x3x3with1x2x3
UniqKeyCall ==
    /\ r_pc = "call" /\ r_op = "uniq_key"
    /\ r_ret' = Bandaged_uniq_key(r_arg.s)
    /\ r_pc' = "returned"
    /\ UNCHANGED <<r_op, r_arg>>

RandNext == (ParityCall \/ WithParityCall \/ FlipsCall \/ UniqKeyCall)
            /\ UNCHANGED <<enumVars, solveVars, moveVars, bulkVars, dfsVars>>

SpecRandom == RandInit /\ [][RandNext]_vars

\* 0 and 1 exchanged
Transpose01(v) == IF v = 0 THEN 1 ELSE IF v = 1 THEN 0 ELSE v

\* C15: for every length n >= 2, every outcome of the shuffle and both
\* desired parities, with_parity returns a bijection on 0..n-1 of length n
\* whose parity() is the desired one; it is the shuffle itself when that has
\* the desired parity and the shuffle followed by the transposition of 0
\* and 1 when not.
C15_WithParity ==
    (r_pc = "returned" /\ r_op = "with_parity") =>
        LET n == Len(r_arg.out)
        IN  /\ Len(r_ret) = n
            /\ {r_ret[i] : i \in 1..n} = 0..(n - 1)
            /\ parity(r_ret) = r_arg.desired
            /\ r_ret = IF parity(r_arg.out) = r_arg.desired THEN r_arg.out
                       ELSE [i \in 1..n |-> Transpose01(r_arg.out[i])]

\* the shuffle gave an odd permutation of 0..2, Even was desired
C15_Witness ==
    /\ r_pc = "returned" /\ r_op = "with_parity"
    /\ r_arg = [out |-> <<2, 1, 0>>, desired |-> "Even"]
    /\ r_ret = <<2, 0, 1>>

\* the number of Flipped entries
FlippedCount(f) == Cardinality({i \in DOMAIN f : f[i] = "Flipped"})

\* C16: for every len >= 1, every sequence of draws and both targets,
\* flips_with_parity returns exactly len orientations, and the number of
\* Flipped ones is even when desired is Even and odd when it is Odd.
C16_FlipsWithParity ==
    (r_pc = "returned" /\ r_op = "flips_with_parity") =>
        /\ Len(r_ret) = Len(r_arg.drawn) + 1
        /\ \A i \in DOMAIN r_ret : r_ret[i] \in EdgeOrientations
        /\ (FlippedCount(r_ret) % 2 = 0) <=> (r_arg.desired = "Even")

\* len 3, one Flipped drawn, Even desired: the last one is Flipped too
C16_Witness ==
    /\ r_pc = "returned" /\ r_op = "flips_with_parity"
    /\ r_arg = [drawn |-> <<"Flipped", "Normal">>, desired |-> "Even"]
    /\ r_ret = <<"Flipped", "Normal", "Flipped">>

\* the cycle of p through the index i
RECURSIVE Orbit(_, _, _)
Orbit(p, i, acc) == IF i \in acc THEN acc ELSE Orbit(p, p[i + 1], acc \cup {i})

\* the cycles of p, fixed points included
Cycles(p) == {Orbit(p, i, {}) : i \in 0..(Len(p) - 1)}

EvenCycles(p) == {c \in Cycles(p) : Cardinality(c) % 2 = 0}

Inversions(p) == {ij \in (1..Len(p)) \X (1..Len(p)) : ij[1] < ij[2] /\ p[ij[1]] > p[ij[2]]}

\* C17: for every permutation p of 0..n-1, parity(p) returns Odd exactly
\* when p has an odd number of cycles of even length, which is exactly
\* when it has an odd number of inversions, and Even otherwise; the
\* identity is Even and a single transposition is Odd.
C17_Parity ==
    (r_pc = "returned" /\ r_op = "parity") =>
        LET p == r_arg.p
        IN  /\ r_ret \in TwoParity
            /\ (r_ret = "Odd") <=> (Cardinality(EvenCycles(p)) % 2 = 1)
            /\ (r_ret = "Odd") <=> (Cardinality(Inversions(p)) % 2 = 1)
            /\ (\A i \in 1..Len(p) : p[i] = i - 1) => r_ret = "Even"
            /\ (Cardinality({i \in 1..Len(p) : p[i] # i - 1}) = 2) => r_ret = "Odd"

\* two transpositions, (0 1)(2 3): two cycles of even length, Even
C17_Witness ==
    /\ r_pc = "returned" /\ r_op = "parity"
    /\ r_arg = [p |-> <<1, 0, 3, 2>>]
    /\ Cardinality(EvenCycles(r_arg.p)) = 2
    /\ r_ret = "Even"

\* C20: the key of a Bandaged3x3x3with1x2x3 state encodes the position and
\* the orientation of each of its nine movable edges together with the
\* corners and the centers, so two different states reachable from solved
\* never have the same key.
C20_BandagedKeyInjective ==
    (r_pc = "returned" /\ r_op = "uniq_key") =>
        \A t \in Bandaged_near : Bandaged_uniq_key(t) = r_ret => t = r_arg.s

----------------------------------------------------------------------------
(* scrambles.rs: bulk_scramble.  The closure of the parallel map is run   *)
(* once per drawn state, the calls interleaved in any way; collect() into *)
(* a Result keeps the items in the order of the states, gives an Err as   *)
(* soon as one call gave one, and may then leave other calls unrun.       *)

\* a progress line is printed when c % 1000 == 0
ProgressEvery == 1000

\* Toy puzzles for bulk_scramble: no position but 0 can be solved; 1 can,
\* in one move; 1 and 2 can, in one and two moves; 1 and 2 can, in two
\* moves and one
BulkGraphs == {{}, {<<1, 0>>}, {<<1, 0>>, <<2, 1>>}, {<<1, 2>>, <<2, 0>>}}

BulkPuzzles ==
    {Toy(E, f) : E \in BulkGraphs, f \in 0..ToyMaxFuel} \cup {Puzzle("Floppy1x2x2")}

\* what bulk_scramble returns when the closure is run on one state after
\* the other
bulk_scramble(pz, h, sts) ==
    LET sols == [i \in DOMAIN sts |-> solve(pz, h, sts[i])]
    IN  IF \E i \in DOMAIN sts : sols[i].tag # "Ok"
        THEN [tag |-> "Err", error |-> [tag |-> "OutOfGas", max_fuel |-> MaxFuel(pz)]]
        ELSE [tag |-> "Ok", v |-> [i \in DOMAIN sts |-> Len(sols[i].moves)]]

BulkInit ==
    /\ b_pz \in BulkPuzzles
    /\ b_h = no_heuristic
    /\ b_n \in 0..MaxScrambles
    /\ b_states = <<>>
    /\ b_task = <<>>
    /\ b_len = <<>>
    /\ b_c = <<>>
    /\ completed = 0
    /\ b_stdout = <<>>
    /\ b_ret = [tag |-> "none"]
    /\ b_pc = "draw"
    /\ EnumIdle
    /\ SolveIdle
    /\ MoveIdle
    /\ RandIdle
    /\ DfsIdle

\* (0..num_scrambles).map(|_| State::random_state(rng)): one more state
BulkDraw ==
    /\ b_pc = "draw"
    /\ Len(b_states) < b_n
    /\ \E s \in RandomStates(b_pz) : b_states' = Append(b_states, s)
    /\ UNCHANGED <<b_pz, b_h, b_n, b_task, b_len, b_c, completed, b_stdout, b_ret, b_pc>>

\* .collect() of the states; completed = AtomicUsize::new(0); into_par_iter()
BulkMap ==
    /\ b_pc = "draw"
    /\ Len(b_states) = b_n
    /\ b_task' = [i \in 1..b_n |-> "waiting"]
    /\ completed' = 0
    /\ b_pc' = "map"
    /\ UNCHANGED <<b_pz, b_h, b_n, b_states, b_len, b_c, b_stdout, b_ret>>

\* the closure on state i: a failed solve counts as a solution of length 0
WorkerSolveSwallow(i) ==
    /\ b_pc = "map"
    /\ b_task[i] = "waiting"
    /\ LET solution == solve(b_pz, b_h, b_states[i])
       IN  /\ b_task' = [b_task EXCEPT ![i] = "solved"]
           /\ b_len' = (i :> (IF solution.tag = "Ok" THEN Len(solution.moves) ELSE 0))
                          @@ b_len
    /\ UNCHANGED <<b_pz, b_h, b_n, b_states, b_c, completed, b_stdout, b_ret, b_pc>>

\* the closure on state i: idasearch::solve(&s, h)?; out = solution.len()
WorkerSolve(i) ==
    /\ b_pc = "map"
    /\ b_task[i] = "waiting"
    /\ LET solution == solve(b_pz, b_h, b_states[i])
       IN  IF solution.tag = "Ok"
           THEN /\ b_task' = [b_task EXCEPT ![i] = "solved"]
                /\ b_len' = (i :> Len(solution.moves)) @@ b_len
           ELSE /\ b_task' = [b_task EXCEPT ![i] = "err"]
                /\ b_len' = b_len
    /\ UNCHANGED <<b_pz, b_h, b_n, b_states, b_c, completed, b_stdout, b_ret, b_pc>>

\* the closure on state i with a load and a store in place of fetch_add:
\* the value loaded may be one that another call has since replaced
WorkerCountLostUpdate(i) ==
    /\ b_pc = "map"
    /\ b_task[i] = "solved"
    /\ \E old \in 0..completed :
          /\ completed' = old + 1
          /\ b_c' = (i :> (old + 1)) @@ b_c
    /\ b_task' = [b_task EXCEPT ![i] = "counted"]
    /\ UNCHANGED <<b_pz, b_h, b_n, b_states, b_len, b_stdout, b_ret, b_pc>>

\* the closure on state i: c = completed.fetch_add(1, SeqCst) + 1, one
\* atomic step; other calls may run before this one goes on
WorkerCount(i) ==
    /\ b_pc = "map"
    /\ b_task[i] = "solved"
    /\ completed' = completed + 1
    /\ b_c' = (i :> (completed + 1)) @@ b_c
    /\ b_task' = [b_task EXCEPT ![i] = "counted"]
    /\ UNCHANGED <<b_pz, b_h, b_n, b_states, b_len, b_stdout, b_ret, b_pc>>

\* the closure on state i, after the count: println! of the progress line
\* if c % 1000 == 0, written under the lock of stdout; Ok(out)
WorkerReport(i) ==
    /\ b_pc = "map"
    /\ b_task[i] = "counted"
    /\ b_stdout' = IF b_c[i] % ProgressEvery = 0
                   THEN Append(b_stdout, b_c[i])
                   ELSE b_stdout
    /\ b_task' = [b_task EXCEPT ![i] = "ok"]
    /\ UNCHANGED <<b_pz, b_h, b_n, b_states, b_len, b_c, completed, b_ret, b_pc>>

\* collect(): after an Err the closure need not be run on the other states
BulkDrop(i) ==
    /\ b_pc = "map"
    /\ b_task[i] = "waiting"
    /\ \E j \in DOMAIN b_task : b_task[j] = "err"
    /\ b_task' = [b_task EXCEPT ![i] = "dropped"]
    /\ UNCHANGED <<b_pz, b_h, b_n, b_states, b_len, b_c, completed, b_stdout, b_ret, b_pc>>

\* collect() that gives the lengths in the order the calls were counted
BulkCollectByCompletion ==
    /\ b_pc = "map"
    /\ \A i \in DOMAIN b_task : b_task[i] \in {"ok", "err", "dropped"}
    /\ IF \E i \in DOMAIN b_task : b_task[i] = "err"
       THEN \E i \in DOMAIN b_task :
               /\ b_task[i] = "err"
               /\ b_ret' = [tag |-> "Err",
                            error |-> solve(b_pz, b_h, b_states[i])]
       ELSE b_ret' = [tag |-> "Ok",
                      v |-> [c \in 1..b_n |->
                                b_len[CHOOSE i \in DOMAIN b_c : b_c[i] = c]]]
    /\ b_pc' = "returned"
    /\ UNCHANGED <<b_pz, b_h, b_n, b_states, b_task, b_len, b_c, completed, b_stdout>>

\* collect(): the Err of a call that failed, else Ok of the lengths in the
\* order of the states
BulkCollect ==
    /\ b_pc = "map"
    /\ \A i \in DOMAIN b_task : b_task[i] \in {"ok", "err", "dropped"}
    /\ IF \E i \in DOMAIN b_task : b_task[i] = "err"
       THEN \E i \in DOMAIN b_task :
               /\ b_task[i] = "err"
               /\ b_ret' = [tag |-> "Err",
                            error |-> solve(b_pz, b_h, b_states[i])]
       ELSE b_ret' = [tag |-> "Ok", v |-> [i \in 1..b_n |-> b_len[i]]]
    /\ b_pc' = "returned"
    /\ UNCHANGED <<b_pz, b_h, b_n, b_states, b_task, b_len, b_c, completed, b_stdout>>

BulkNext ==
    (\/ BulkDraw
     \/ BulkMap
     \/ \E i \in DOMAIN b_task : WorkerSolve(i)
     \/ \E i \in DOMAIN b_task : WorkerCount(i)
     \/ \E i \in DOMAIN b_task : WorkerReport(i)
     \/ \E i \in DOMAIN b_task : BulkDrop(i)
     \/ BulkCollect)
    /\ UNCHANGED <<enumVars, solveVars, moveVars, randVars, dfsVars>>

SpecBulk == BulkInit /\ [][BulkNext]_vars

\* C18: bulk_scramble returns Ok(v) only if the solve of every drawn state
\* succeeded, and then v has exactly num_scrambles entries, the i-th the
\* length of the solution of the i-th drawn state; if the solve of any
\* drawn state gives OutOfGas it returns Err(OutOfGas) and no lengths.
C18_BulkResult ==
    b_pc = "returned" =>
        /\ b_ret.tag \in {"Ok", "Err"}
        /\ b_ret.tag = "Ok" =>
               /\ \A i \in 1..b_n : solve(b_pz, b_h, b_states[i]).tag = "Ok"
               /\ DOMAIN b_ret.v = 1..b_n
               /\ \A i \in 1..b_n :
                      b_ret.v[i] = Len(solve(b_pz, b_h, b_states[i]).moves)
        /\ (\E i \in 1..b_n : solve(b_pz, b_h, b_states[i]).tag = "OutOfGas") =>
               /\ b_ret.tag = "Err"
               /\ b_ret.error = [tag |-> "OutOfGas", max_fuel |-> MaxFuel(b_pz)]
               /\ DOMAIN b_ret = {"tag", "error"}

\* two states drawn; the solve of one succeeded and its length was
\* computed and counted, the other ran out of gas: Err is returned
C18_Witness ==
    /\ b_pc = "returned"
    /\ b_n = 2
    /\ b_task = <<"ok", "err">>
    /\ DOMAIN b_len = {1}
    /\ completed = 1
    /\ b_ret.tag = "Err"

\* C19: what bulk_scramble returns depends on the drawn states and the
\* heuristic only: under every interleaving of the closure calls it is what
\* running them one after the other returns.  The calls write nothing
\* shared but the counter, which each call that solved its state increments
\* once, atomically, and which only decides the progress lines.
C19_ScheduleIndependent ==
    /\ b_pc = "returned" => b_ret = bulk_scramble(b_pz, b_h, b_states)
    /\ b_pc \in {"map", "returned"} =>
           /\ completed = Cardinality({i \in DOMAIN b_task :
                                          b_task[i] \in {"counted", "ok"}})
           /\ DOMAIN b_c = {i \in DOMAIN b_task : b_task[i] \in {"counted", "ok"}}
           /\ {b_c[i] : i \in DOMAIN b_c} = 1..completed
           /\ \A k \in DOMAIN b_stdout :
                 /\ b_stdout[k] % ProgressEvery = 0
                 /\ \E i \in DOMAIN b_c : b_task[i] = "ok" /\ b_c[i] = b_stdout[k]

\* the call on the second state was counted before the call on the first,
\* the two solutions differ in length: the lengths come in the states' order
C19_Witness ==
    /\ b_pc = "returned"
    /\ b_n = 2
    /\ b_ret.tag = "Ok"
    /\ b_c[1] = 2 /\ b_c[2] = 1
    /\ b_ret.v[1] # b_ret.v[2]
    /\ b_ret.v = <<b_len[1], b_len[2]>>

----------------------------------------------------------------------------
(* cuboid_3x3x4.rs: make_heuristic, evaluated on the states near solved   *)
(* and on states nine moves from solved                                    *)

\* the states of Cuboid3x3x4 near solved that the model visits
Cuboid3x3x4_near ==
    Within(Puzzle("Cuboid3x3x4"), {Cuboid3x3x4_solved}, CuboidNearDepth)

\* <<S0, ..., Sn>>, Sk the states of U from which at most k moves lead to
\* a solved state, appended to acc = <<S0>>
RECURSIVE SolvableWithin(_, _, _, _)
SolvableWithin(pz, U, n, acc) ==
    IF Len(acc) > n THEN acc
    ELSE LET W == acc[Len(acc)]
             N == W \cup {t \in U : \E x \in Range(Neighbors(pz, t)) : x \in W}
         IN  SolvableWithin(pz, U, n, Append(acc, N))

\* SolvableWithin for the states at most CuboidNearDepth moves from start()
SolvableNear(pz) ==
    SolvableWithin(pz, Within(pz, {Start(pz)}, CuboidNearDepth), CuboidNearDepth,
                   <<{s \in Within(pz, {Start(pz)}, CuboidNearDepth) : IsSolved(pz, s)}>>)

Cuboid3x3x4_solvable == SolvableNear(Puzzle("Cuboid3x3x4"))

OuterCuboid3x3x4_solvable == SolvableNear(Puzzle("OuterCuboid3x3x4"))

InnerCuboid3x3x4_solvable == SolvableNear(Puzzle("InnerCuboid3x3x4"))

\* the least number of moves that solve s, given the sets SolvableWithin made
MovesToSolve(levels, s) == Min({d \in 0..(Len(levels) - 1) : s \in levels[d + 1]})

\* the states at most n moves away from a state of B
RECURSIVE Ball(_, _, _)
Ball(pz, B, n) ==
    IF n <= 0 THEN B
    ELSE Ball(pz, B \cup UNION {Range(Neighbors(pz, x)) : x \in B}, n - 1)

\* no n moves or fewer solve s.  Moves that solve s lead, after the first
\* n \div 2 of them or before, to a state that the others solve; every
\* move is undone by its reverse (C9) and is_solved holds of solved()
\* alone, so that such a state is as many moves from solved().
Cuboid3x3x4_not_solved_within(s, n) ==
    \/ n < 0
    \/ Ball(Puzzle("Cuboid3x3x4"), {s}, n \div 2)
          \cap Ball(Puzzle("Cuboid3x3x4"), {Cuboid3x3x4_solved}, n - n \div 2) = {}

\* two sequences of nine moves: after the first the inner layers are solved
\* and the outer are not, after the second the outer are three moves from
\* solved
Cuboid3x3x4_far_scrambles ==
    {<<<<"F2">>, <<"R2">>, <<"Rw2">>, <<"U", "Two">>, <<"R2">>, <<"U", "One">>,
       <<"Rw2">>, <<"U", "One">>, <<"F2">>>>,
     <<<<"F2">>, <<"R2">>, <<"Uw", "Two">>, <<"Uww", "Two">>, <<"R2">>, <<"F2">>,
       <<"Uw", "Rev">>, <<"Rw2">>, <<"Uw", "One">>>>}

CuboidInit ==
    /\ puzzle = Puzzle("Cuboid3x3x4")
    /\ heuristic = 0
    /\ cache_depth = 0
    /\ input = Start(puzzle)
    /\ origin = "start"
    /\ fuel = 0
    /\ passes = <<>>
    /\ result = [tag |-> "none"]
    /\ scramble = <<>>
    /\ rng = NoRng
    /\ pc = "new"
    /\ EnumIdle
    /\ MoveIdle
    /\ RandIdle
    /\ DfsIdle
    /\ BulkIdle

\* make_heuristic is called: cache_depth holds the depths of the outer, the
\* inner and the whole-state cache.  Of each cache either the passes
\* 0..=CuboidFewPasses are carried out, or of the layer caches the passes
\* 0..=CuboidLayerPasses and of the whole-state cache the passes
\* 0..=CuboidNearDepth.
CuboidMakeHeuristic ==
    /\ pc = "new"
    /\ \E unfolded \in {<<CuboidFewPasses, CuboidFewPasses>>,
                        <<CuboidLayerPasses, CuboidNearDepth>>} :
          heuristic' = Cuboid3x3x4_make_heuristic(unfolded[1], unfolded[2])
    /\ cache_depth' = <<heuristic'.outer.max_depth, heuristic'.inner.max_depth,
                        heuristic'.total.max_depth>>
    /\ pc' = "setup"
    /\ UNCHANGED <<puzzle, input, origin, fuel, passes, result, scramble, rng>>

\* a state reached from solved by one more move
CuboidTwist ==
    /\ pc = "setup"
    /\ origin # "scramble"
    /\ \E m \in Range(AvailableMoves(puzzle, input)) :
          /\ input' = Apply(puzzle, input, m)
          /\ input' \in Cuboid3x3x4_near
    /\ origin' = "twist"
    /\ UNCHANGED <<puzzle, heuristic, cache_depth, fuel, passes, result, scramble, rng, pc>>

\* a state reached from solved by the moves of a far scramble; it is asked
\* of the caches of which the more passes are carried out
CuboidScramble ==
    /\ pc = "setup"
    /\ origin = "start"
    /\ heuristic.outer.passes >= CuboidLayerPasses
    /\ scramble' \in Cuboid3x3x4_far_scrambles
    /\ input' = ApplyAll(puzzle, input, scramble', 1)
    /\ origin' = "scramble"
    /\ UNCHANGED <<puzzle, heuristic, cache_depth, fuel, passes, result, rng, pc>>

\* the heuristic is asked for the cost of `input`
CuboidEstimate ==
    /\ pc = "setup"
    /\ result' = [tag |-> "cost",
                  cost |-> Cuboid3x3x4_closure(heuristic, input)]
    /\ pc' = "estimated"
    /\ UNCHANGED <<puzzle, heuristic, cache_depth, input, origin, fuel, passes, scramble, rng>>

CuboidNext ==
    (CuboidMakeHeuristic \/ CuboidTwist \/ CuboidScramble \/ CuboidEstimate)
    /\ UNCHANGED <<enumVars, moveVars, randVars, bulkVars, dfsVars>>

SpecCuboid == CuboidInit /\ [][CuboidNext]_vars

\* C21: the heuristic of make_heuristic returns the greatest of the cost of
\* the outer-layer cache on state.outer, of the inner-layer cache on
\* state.inner and of the whole-state cache, and never more than the least
\* number of moves that solve the state; every move of the whole state is,
\* on each layer, a move of the layer or no change.  The caches are 11, 11
\* and 7 passes deep.  On a state at most CuboidNearDepth moves from solved
\* each cache answers the least number of moves that solve what it is
\* asked about; on the far scrambles the whole-state cache does not hold
\* the state and a layer cache answers more than its fallback 8, and no
\* fewer moves than the heuristic returns solve the state.
C21_CuboidHeuristic ==
    pc = "estimated" =>
        /\ cache_depth = <<11, 11, 7>>
        /\ \A m \in Range(AvailableMoves(puzzle, input)) :
              /\ Apply(puzzle, input, m).outer
                    \in {input.outer}
                        \cup Range(Neighbors(Puzzle("OuterCuboid3x3x4"), input.outer))
              /\ Apply(puzzle, input, m).inner
                    \in {input.inner}
                        \cup Range(Neighbors(Puzzle("InnerCuboid3x3x4"), input.inner))
        /\ \A c \in {Cuboid3x3x4_costs(heuristic, input)} :
              /\ result.cost \in {c[1], c[2], c[3]}
              /\ \A k \in 1..3 : c[k] <= result.cost
              /\ origin # "scramble" =>
                    /\ result.cost <= MovesToSolve(Cuboid3x3x4_solvable, input)
                    /\ c[1] = MovesToSolve(OuterCuboid3x3x4_solvable, input.outer)
                    /\ c[2] = MovesToSolve(InnerCuboid3x3x4_solvable, input.inner)
                    /\ c[3] = MovesToSolve(Cuboid3x3x4_solvable, input)
              /\ origin = "scramble" =>
                    /\ c[3] = Cuboid3x3x4_total_depth + 1
                    /\ result.cost > c[3]
                    /\ Cuboid3x3x4_not_solved_within(input, result.cost - 1)

\* a far scramble on which the outer-layer cache decides: the whole-state
\* cache does not hold the state and answers 8, the inner layers are
\* solved, the outer layers are nine moves from solved and the heuristic
\* returns 9
C21_Witness ==
    /\ pc = "estimated"
    /\ origin = "scramble"
    /\ input.inner = InnerCuboid3x3x4_solved
    /\ result.cost = 9
    /\ \E c \in {Cuboid3x3x4_costs(heuristic, input)} : c = <<9, 0, 8>>

----------------------------------------------------------------------------
(* idasearch.rs: solve, with the calls of dfs taken one step at a time.    *)
(* A call in progress is a record [state, rem_fuel, i, entry]: i is 0      *)
(* before the is_solved test and then the place in available_moves() of    *)
(* the move the loop is at; entry is moves_so_far as the call found it.    *)

\* the move graphs of the Toy puzzles solve is stepped through on
DfsGraphs ==
    {{}, {<<1, 0>>, <<2, 1>>}, {<<1, 2>>, <<2, 1>>, <<2, 0>>},
     {<<1, 1>>, <<1, 2>>, <<2, 0>>}, {<<0, 1>>, <<1, 0>>, <<1, 2>>, <<2, 0>>},
     {<<1, 2>>, <<2, 1>>}}

\* Floppy1x2x2 with the trait's default is_redundant in place of its own
Floppy1x2x2_default_redundant == [Puzzle("Floppy1x2x2") EXCEPT !.red = "default"]

DfsPuzzles ==
    {Toy(E, f) : E \in DfsGraphs, f \in 0..ToyMaxFuel}
    \cup {Puzzle("Floppy1x2x2"), Floppy1x2x2_default_redundant}

\* the states handed to solve
DfsInputs(pz) ==
    IF pz.kind = "Toy" THEN ToyPositions ELSE Reachable(pz, {Start(pz)})

DfsInit ==
    /\ puzzle \in DfsPuzzles
    /\ heuristic = 0
    /\ cache_depth = 0
    /\ input \in DfsInputs(puzzle)
    /\ origin = "given"
    /\ fuel = 0
    /\ passes = <<>>
    /\ result = [tag |-> "none"]
    /\ scramble = <<>>
    /\ rng = NoRng
    /\ pc = "new"
    /\ DfsIdle
    /\ EnumIdle
    /\ MoveIdle
    /\ RandIdle
    /\ BulkIdle

Frame(st, rem_fuel, entry) ==
    [state |-> st, rem_fuel |-> rem_fuel, i |-> 0, entry |-> entry]

\* the innermost call with its loop moved on to the next move
NextMove(stack) == [stack EXCEPT ![Len(stack)].i = @ + 1]

\* let mut solution = Vec::new(); dfs(state, heuristic, &mut solution, fuel)
DfsPass ==
    /\ pc = "for"
    /\ fuel <= MaxFuel(puzzle)
    /\ passes' = Append(passes, fuel)
    /\ d_moves' = <<>>
    /\ d_stack' = <<Frame(input, fuel, <<>>)>>
    /\ d_ev' = [kind |-> "call"]
    /\ pc' = "dfs"
    /\ UNCHANGED <<puzzle, heuristic, cache_depth, input, origin, fuel, result,
                   scramble, rng, d_evals>>

\* if state.is_solved() { return Found }; let last_move = ...
DfsIsSolved ==
    /\ pc = "dfs"
    /\ Last(d_stack).i = 0
    /\ IF IsSolved(puzzle, Last(d_stack).state)
       THEN /\ d_stack' = Pop(d_stack)
            /\ d_ev' = [kind |-> "found"]
            /\ pc' = "found"
       ELSE /\ d_stack' = NextMove(d_stack)
            /\ d_ev' = [kind |-> "loop"]
            /\ pc' = pc
    /\ UNCHANGED <<puzzle, heuristic, cache_depth, input, origin, fuel, passes,
                   result, scramble, rng, d_moves, d_evals>>

\* a test that also skips the move whose cost is the whole budget
SkipsEager(min_cost, rem_fuel) == min_cost >= rem_fuel

\* if min_cost > rem_fuel { continue }
Skips(min_cost, rem_fuel) == min_cost > rem_fuel

\* one turn of `for m in state.available_moves()`, up to the recursive call
DfsMove ==
    /\ pc = "dfs"
    /\ LET top == Last(d_stack)
           ms == AvailableMoves(puzzle, top.state)
       IN  /\ top.i \in 1..Len(ms)
           /\ LET m == ms[top.i]
                  next == Apply(puzzle, top.state, m)
                  min_cost == estimated_remaining_cost(puzzle, heuristic, next) + 1
              IN  IF d_moves # <<>> /\ IsRedundant(puzzle, Last(d_moves), m)
                  THEN /\ d_stack' = NextMove(d_stack)
                       /\ d_ev' = [kind |-> "redundant"]
                       /\ UNCHANGED <<d_moves, d_evals>>
                  ELSE /\ d_evals' = d_evals \cup {next}
                       /\ IF Skips(min_cost, top.rem_fuel)
                          THEN /\ d_stack' = NextMove(d_stack)
                               /\ d_ev' = [kind |-> "skip", next |-> next,
                                           min_cost |-> min_cost,
                                           rem_fuel |-> top.rem_fuel]
                               /\ UNCHANGED d_moves
                          ELSE /\ d_moves' = Append(d_moves, m)
                               /\ d_stack' = Append(d_stack,
                                     Frame(next, top.rem_fuel - 1, Append(d_moves, m)))
                               /\ d_ev' = [kind |-> "recurse", rem_fuel |-> top.rem_fuel]
    /\ UNCHANGED <<puzzle, heuristic, cache_depth, input, origin, fuel, passes,
                   result, scramble, rng, pc>>

\* a call that returns NotFound and leaves the caller's moves_so_far.pop() out
DfsNotFoundNoPop ==
    /\ pc = "dfs"
    /\ LET top == Last(d_stack)
       IN  /\ top.i > Len(AvailableMoves(puzzle, top.state))
           /\ d_ev' = [kind |-> "notfound", entry |-> top.entry, moves |-> d_moves]
           /\ IF Len(d_stack) > 1
              THEN /\ d_stack' = NextMove(Pop(d_stack))
                   /\ d_moves' = d_moves
                   /\ UNCHANGED <<fuel, pc>>
              ELSE /\ d_stack' = <<>>
                   /\ fuel' = fuel + 1
                   /\ pc' = "for"
                   /\ UNCHANGED d_moves
    /\ UNCHANGED <<puzzle, heuristic, cache_depth, input, origin, passes, result,
                   scramble, rng, d_evals>>

\* the loop is over: the call returns NotFound; its caller, if it has one,
\* pops the move and goes on with its loop, and solve goes on to the next fuel
DfsNotFound ==
    /\ pc = "dfs"
    /\ LET top == Last(d_stack)
       IN  /\ top.i > Len(AvailableMoves(puzzle, top.state))
           /\ d_ev' = [kind |-> "notfound", entry |-> top.entry, moves |-> d_moves]
           /\ IF Len(d_stack) > 1
              THEN /\ d_stack' = NextMove(Pop(d_stack))
                   /\ d_moves' = Pop(d_moves)
                   /\ UNCHANGED <<fuel, pc>>
              ELSE /\ d_stack' = <<>>
                   /\ fuel' = fuel + 1
                   /\ pc' = "for"
                   /\ UNCHANGED d_moves
    /\ UNCHANGED <<puzzle, heuristic, cache_depth, input, origin, passes, result,
                   scramble, rng, d_evals>>

\* if sr_child == Found { return sr_child }
DfsReturnFound ==
    /\ pc = "found"
    /\ d_stack # <<>>
    /\ d_stack' = Pop(d_stack)
    /\ d_ev' = [kind |-> "found"]
    /\ UNCHANGED <<puzzle, heuristic, cache_depth, input, origin, fuel, passes,
                   result, scramble, rng, pc, d_moves, d_evals>>

\* if sr == Found { return Ok(solution) }
DfsSolveOk ==
    /\ pc = "found"
    /\ d_stack = <<>>
    /\ result' = [tag |-> "Ok", moves |-> d_moves]
    /\ pc' = "returned"
    /\ UNCHANGED <<puzzle, heuristic, cache_depth, input, origin, fuel, passes,
                   scramble, rng, d_stack, d_moves, d_ev, d_evals>>

DfsNext ==
    \/ (UseNoHeuristic \/ UseClosure \/ UseBoundedCache \/ SolveEnter \/ SolveOutOfGas)
       /\ UNCHANGED <<enumVars, moveVars, randVars, bulkVars, dfsVars>>
    \/ (DfsPass \/ DfsIsSolved \/ DfsMove \/ DfsNotFound \/ DfsReturnFound
        \/ DfsSolveOk)
       /\ UNCHANGED <<enumVars, moveVars, randVars, bulkVars>>

SpecDfs == DfsInit /\ [][DfsNext]_vars

\* the least number of moves from a state of W to a solved state, -1 if no
\* moves lead from W to one
RECURSIVE SolveDistance(_, _, _)
SolveDistance(pz, W, d) ==
    IF \E w \in W : IsSolved(pz, w) THEN d
    ELSE LET N == W \cup UNION {Range(Neighbors(pz, w)) : w \in W}
         IN  IF N = W THEN -1 ELSE SolveDistance(pz, N, d + 1)

\* h never estimates more than the least number of solving moves
Admissible(pz, h) ==
    \A s \in DfsInputs(pz) :
        LET d == SolveDistance(pz, {s}, 0)
        IN  d = -1 \/ estimated_remaining_cost(pz, h, s) <= d

\* C22: with an admissible heuristic and the default is_redundant, a pass of
\* dfs with budget f returns Found exactly if the state is at most f moves
\* from solved; a move is skipped only when heuristic(next) + 1 exceeds the
\* remaining budget, and then next has no solution within that budget.
C22_PassFindsWithinBudget ==
    (/\ pc \in {"for", "dfs", "found", "returned"}
     /\ puzzle.red = "default"
     /\ Admissible(puzzle, heuristic))
    => LET dist == SolveDistance(puzzle, {input}, 0)
       IN  /\ \A f \in 0..MaxFuel(puzzle) :
                 (dfs(puzzle, heuristic, input, <<>>, f).sr = "Found")
                 <=> (dist # -1 /\ dist <= f)
           /\ (pc = "found" /\ d_stack = <<>>) => (dist # -1 /\ dist <= fuel)
           /\ (pc = "for" /\ d_ev.kind = "notfound")
                 => ~(dist # -1 /\ dist <= fuel - 1)
           /\ d_ev.kind = "skip" =>
                 LET dn == SolveDistance(puzzle, {d_ev.next}, 0)
                 IN  /\ d_ev.min_cost > d_ev.rem_fuel
                     /\ dn = -1 \/ dn + 1 > d_ev.rem_fuel

\* in the pass with budget 1 on a Toy state two moves from solved, a move
\* is skipped because the heuristic puts its target one move from solved
C22_Witness ==
    /\ pc = "dfs"
    /\ puzzle.kind = "Toy"
    /\ puzzle.red = "default"
    /\ Admissible(puzzle, heuristic)
    /\ SolveDistance(puzzle, {input}, 0) = 2
    /\ fuel = 1
    /\ d_ev.kind = "skip"
    /\ d_ev.min_cost = 2
    /\ d_ev.rem_fuel = 1

\* C23: solve on a solved state returns Ok with no moves in the pass with
\* budget 0, whatever the heuristic, which is not evaluated, and whatever
\* max_fuel(), 0 included.
C23_SolvedAtOnce ==
    (pc \in {"dfs", "found", "returned"} /\ IsSolved(puzzle, input))
    => /\ passes = <<0>>
       /\ d_evals = {}
       /\ d_moves = <<>>
       /\ Len(d_stack) <= 1
       /\ pc = "returned" => result = [tag |-> "Ok", moves |-> <<>>]

\* a Toy puzzle with max_fuel() 0 whose closure heuristic estimates the
\* solved state at 1 and every other state at 0
C23_Witness ==
    /\ pc = "returned"
    /\ puzzle.kind = "Toy"
    /\ MaxFuel(puzzle) = 0
    /\ IsSolved(puzzle, input)
    /\ heuristic.kind = "closure"
    /\ heuristic.stored[input] = 1
    /\ result = [tag |-> "Ok", moves |-> <<>>]

\* C24: in every call of dfs of a pass with budget f, the length of
\* moves_so_far at entry plus rem_fuel is f; dfs calls itself only with
\* rem_fuel >= 1, so that no rem_fuel is below 0 and no more than f calls
\* are nested in the first, with f <= max_fuel(); a call that returns
\* NotFound leaves moves_so_far as it found it.
C24_FuelAccounting ==
    /\ \A k \in 1..Len(d_stack) :
          /\ Len(d_stack[k].entry) + d_stack[k].rem_fuel = fuel
          /\ d_stack[k].rem_fuel >= 0
          /\ Len(d_stack[k].entry) = k - 1
    /\ d_stack # <<>> => (Len(d_stack) <= fuel + 1 /\ fuel <= MaxFuel(puzzle))
    /\ d_ev.kind = "recurse" => d_ev.rem_fuel >= 1
    /\ d_ev.kind = "notfound" => d_ev.moves = d_ev.entry
    /\ pc = "dfs" => d_moves = Last(d_stack).entry

\* in a pass with budget 2, a call two moves deep has returned NotFound
C24_Witness ==
    /\ pc = "dfs"
    /\ fuel = 2
    /\ d_ev.kind = "notfound"
    /\ Len(d_ev.entry) = 2
    /\ Len(d_stack) = 2
    /\ Len(d_moves) = 1

----------------------------------------------------------------------------
(* solve with a cache against solve without a heuristic, on Floppy1x3x3 *)

\* every state of Floppy1x3x3 that moves lead to from the solved one
Floppy1x3x3_reachable ==
    Reachable(Puzzle("Floppy1x3x3"), {Start(Puzzle("Floppy1x3x3"))})

\* bounded_cache::<Floppy1x3x3>(D) for D in 0..=max_fuel(), each built once
Floppy1x3x3_caches ==
    bounded_caches(Puzzle("Floppy1x3x3"), Floppy1x3x3_max_fuel, <<>>)

CompareInit ==
    /\ puzzle = Puzzle("Floppy1x3x3")
    /\ heuristic = no_heuristic
    /\ cache_depth = 0
    /\ input \in Floppy1x3x3_reachable
    /\ origin = "given"
    /\ fuel = 0
    /\ passes = <<>>
    /\ result = [tag |-> "none"]
    /\ scramble = <<>>
    /\ rng = NoRng
    /\ pc = "setup"
    /\ EnumIdle
    /\ MoveIdle
    /\ RandIdle
    /\ DfsIdle
    /\ BulkIdle

\* solve(&input, &no_heuristic)
ComparePlain ==
    /\ pc = "setup"
    /\ result' = solve(puzzle, no_heuristic, input)
    /\ pc' = "returned"
    /\ UNCHANGED <<puzzle, heuristic, cache_depth, input, origin, fuel, passes, scramble, rng>>

\* solve(&input, &bounded_cache::<Floppy1x3x3>(max_depth)), on the same input
CompareCached ==
    /\ pc = "returned"
    /\ \E max_depth \in 0..Floppy1x3x3_max_fuel :
          /\ heuristic' = Floppy1x3x3_caches[max_depth + 1]
          /\ cache_depth' = max_depth
    /\ result' = solve(puzzle, heuristic', input)
    /\ pc' = "compared"
    /\ UNCHANGED <<puzzle, input, origin, fuel, passes, scramble, rng>>

CompareNext ==
    (ComparePlain \/ CompareCached)
    /\ UNCHANGED <<enumVars, moveVars, randVars, bulkVars, dfsVars>>

SpecCompare == CompareInit /\ [][CompareNext]_vars

\* C25: for Floppy1x3x3, every cache depth D in 0..=8 and every state
\* reachable from solved, solve with bounded_cache(D) returns Ok with a
\* path exactly as long as the path solve with no_heuristic returns.
C25_CacheKeepsLength ==
    [][(pc = "returned" /\ pc' = "compared")
       => /\ result.tag = "Ok"
          /\ result'.tag = "Ok"
          /\ Len(result'.moves) = Len(result.moves)
          /\ ApplyAll(puzzle, input, result'.moves, 1) = Floppy1x3x3_solved]_vars

\* a state eight moves from solved, solved in eight moves with a cache
\* three deep, which answers 4 for that state
C25_Witness ==
    /\ pc = "compared"
    /\ cache_depth = 3
    /\ heuristic.kind = "BoundedStateCache"
    /\ estimated_remaining_cost(puzzle, heuristic, input) = 4
    /\ Distance(puzzle, input) = 8
    /\ result.tag = "Ok"
    /\ Len(result.moves) = 8

----------------------------------------------------------------------------
(* bounded_cache on implementations that override should_count_as_config *)

\* every Toy graph with every answer of should_count_as_config
CachePuzzles == {ToyCounting(E, C) : E \in ToyGraphs, C \in SUBSET ToyPositions}

CacheInit ==
    /\ puzzle \in CachePuzzles
    /\ heuristic = 0
    /\ cache_depth = 0
    /\ input = Start(puzzle)
    /\ origin = "start"
    /\ fuel = 0
    /\ passes = <<>>
    /\ result = [tag |-> "none"]
    /\ scramble = <<>>
    /\ rng = NoRng
    /\ pc = "new"
    /\ EnumIdle
    /\ MoveIdle
    /\ RandIdle
    /\ DfsIdle
    /\ BulkIdle

\* cache.estimated_remaining_cost(&t) for a state t of the caller's choice
CacheEstimate ==
    /\ pc = "setup"
    /\ \E t \in ToyPositions :
          /\ input' = t
          /\ result' = [tag |-> "cost",
                        cost |-> estimated_remaining_cost(puzzle, heuristic, t)]
    /\ origin' = "given"
    /\ pc' = "estimated"
    /\ UNCHANGED <<puzzle, heuristic, cache_depth, fuel, passes, scramble, rng>>

CacheNext ==
    (UseBoundedCache \/ CacheEstimate)
    /\ UNCHANGED <<enumVars, moveVars, randVars, bulkVars, dfsVars>>

SpecCache == CacheInit /\ [][CacheNext]_vars

\* C26: bounded_cache stores, for every state at most max_depth moves from
\* the start, its breadth-first depth under its key, whether or not
\* should_count_as_config is true for it, and stores nothing else;
\* estimated_remaining_cost returns that depth for such a state and
\* max_depth + 1 for any other.
C26_CacheIgnoresShouldCount ==
    /\ pc \in {"setup", "estimated"} =>
          \A s \in ToyPositions :
             LET d == Distance(puzzle, s)
             IN  IF d # -1 /\ d <= cache_depth
                 THEN /\ UniqKey(puzzle, s) \in DOMAIN heuristic.stored
                      /\ heuristic.stored[UniqKey(puzzle, s)] = d
                 ELSE UniqKey(puzzle, s) \notin DOMAIN heuristic.stored
    /\ pc = "estimated" =>
          LET d == Distance(puzzle, input)
          IN  result.cost = IF d # -1 /\ d <= cache_depth THEN d
                            ELSE cache_depth + 1

\* a state should_count_as_config rejects, two moves from the start through
\* a state it rejects too, is estimated at 2 by a cache two deep
C26_Witness ==
    /\ pc = "estimated"
    /\ cache_depth = 2
    /\ ~ShouldCountAsConfig(puzzle, input)
    /\ \A s \in ToyPositions :
          Distance(puzzle, s) = 1 => ~ShouldCountAsConfig(puzzle, s)
    /\ Distance(puzzle, input) = 2
    /\ result.cost = 2

----------------------------------------------------------------------------
(* random_state of the floppy puzzles against max_fuel() *)

\* C27: for Floppy1x2x2 (max_fuel 3), Floppy1x2x3 (max_fuel 6) and
\* Floppy1x3x3 (max_fuel 8), every state random_state can return is at most
\* max_fuel() moves from solved, and solve with no_heuristic on a state
\* drawn by random_state returns Ok, never OutOfGas.
C27_RandomStateWithinFuel ==
    /\ <<Floppy1x2x2_max_fuel, Floppy1x2x3_max_fuel, Floppy1x3x3_max_fuel>> = <<3, 6, 8>>
    /\ (puzzle.kind \in Floppies /\ origin = "random_state") =>
          /\ input \in RandomStates(puzzle)
          /\ Distance(puzzle, input) \in 0..MaxFuel(puzzle)
          /\ (pc \in {"returned", "scrambled"} /\ heuristic.kind = "no_heuristic")
                => (result.tag = "Ok" /\ Len(result.moves) <= MaxFuel(puzzle))

\* a state drawn by Floppy1x3x3::random_state that is as far from solved as
\* max_fuel() allows, solved without a heuristic in the last pass
C27_Witness ==
    /\ pc = "returned"
    /\ puzzle.kind = "Floppy1x3x3"
    /\ origin = "random_state"
    /\ heuristic.kind = "no_heuristic"
    /\ Distance(puzzle, input) = 8
    /\ passes = <<0, 1, 2, 3, 4, 5, 6, 7, 8>>
    /\ result.tag = "Ok"
    /\ Len(result.moves) = 8

----------------------------------------------------------------------------
(* Floppy1x3x3: random_state against the states the moves reach *)

\* every arrangement of the four corners with every orientation of the
\* four centers
Floppy1x3x3_arrangements ==
    {[ul |-> c[1], ur |-> c[2], dl |-> c[3], dr |-> c[4],
      lc_solved |-> o[1], rc_solved |-> o[2], uc_solved |-> o[3], dc_solved |-> o[4]] :
        c \in Shuffles(<<"UL", "UR", "DL", "DR">>), o \in [1..4 -> EdgeOrientations]}

\* the place a corner cubelet is at home in: ul, ur, dl, dr as 0, 1, 2, 3
Floppy1x3x3_home(c) ==
    CASE c = "UL" -> 0 [] c = "UR" -> 1 [] c = "DL" -> 2 [] c = "DR" -> 3

\* the number of inversions of the corner permutation of s is even exactly
\* when the number of flipped centers of s is
Floppy1x3x3_coupled(s) ==
    LET corners == <<Floppy1x3x3_home(s.ul), Floppy1x3x3_home(s.ur),
                     Floppy1x3x3_home(s.dl), Floppy1x3x3_home(s.dr)>>
        centers == <<s.lc_solved, s.rc_solved, s.uc_solved, s.dc_solved>>
    IN  (Cardinality(Inversions(corners)) % 2) = (FlippedCount(centers) % 2)

\* random_state returns the coupled arrangements, all of them and no other
Floppy1x3x3_random_is_coupled ==
    Floppy1x3x3_random_state = {s \in Floppy1x3x3_arrangements : Floppy1x3x3_coupled(s)}

\* random_state returns the states the moves reach, all of them and no other
Floppy1x3x3_random_is_reachable == Floppy1x3x3_random_state = Floppy1x3x3_reachable

\* no move of any arrangement changes whether it is coupled
Floppy1x3x3_moves_keep_coupling ==
    \A s \in Floppy1x3x3_arrangements :
        \A i \in DOMAIN Floppy1x3x3_available_moves :
            Floppy1x3x3_coupled(Floppy1x3x3_apply(s, Floppy1x3x3_available_moves[i]))
            <=> Floppy1x3x3_coupled(s)

\* C28: the states Floppy1x3x3::random_state can return (any arrangement of
\* the corners, the number of flipped centers having the parity of the
\* corner permutation) are exactly the states L2, R2, U2 and D2 reach from
\* solved, and every move preserves the coupling of the two parities.
C28_RandomIsReachable ==
    /\ Floppy1x3x3_random_is_coupled
    /\ Floppy1x3x3_random_is_reachable
    /\ Floppy1x3x3_moves_keep_coupling
    /\ puzzle.kind = "Floppy1x3x3" =>
          /\ Floppy1x3x3_coupled(input)
          /\ origin = "twist" => input \in Floppy1x3x3_random_state
          /\ origin = "random_state" => input \in Floppy1x3x3_reachable

\* moves have led from solved to a state with an odd corner permutation
\* and three flipped centers, which random_state can return too
C28_Witness ==
    /\ puzzle.kind = "Floppy1x3x3"
    /\ origin = "twist"
    /\ input \in Floppy1x3x3_random_state
    /\ Cardinality(Inversions(<<Floppy1x3x3_home(input.ul), Floppy1x3x3_home(input.ur),
                                Floppy1x3x3_home(input.dl), Floppy1x3x3_home(input.dr)>>)) % 2 = 1
    /\ FlippedCount(<<input.lc_solved, input.rc_solved, input.uc_solved,
                      input.dc_solved>>) = 3

----------------------------------------------------------------------------
(* with_parity as a function of the shuffle outcome *)

RECURSIVE Factorial(_)
Factorial(n) == IF n <= 1 THEN 1 ELSE n * Factorial(n - 1)

\* with_parity on every shuffle outcome of every length 2..MaxPermLen, for
\* both desired parities
with_parity_outcomes ==
    UNION {{[len |-> n, desired |-> d, out |-> q, ret |-> with_parity(q, d)] :
               q \in any_permutation(n), d \in TwoParity} : n \in 2..MaxPermLen}

\* for every length and desired parity, the values with_parity takes over
\* the n! shuffle outcomes are the permutations of the desired parity, all
\* of them, and there are n!/2
with_parity_onto ==
    \A n \in 2..MaxPermLen, d \in TwoParity :
        LET shuffled == any_permutation(n)
            image == {e.ret : e \in {o \in with_parity_outcomes :
                                        o.len = n /\ o.desired = d}}
        IN  /\ Cardinality(shuffled) = Factorial(n)
            /\ image = {q \in shuffled : parity(q) = d}
            /\ 2 * Cardinality(image) = Factorial(n)

\* C29: for every n >= 2 and each desired parity, with_parity maps the n!
\* shuffle outcomes onto the n!/2 permutations of the desired parity, and
\* every permutation it returns is the image of exactly two outcomes.
C29_WithParityTwoToOne ==
    /\ with_parity_onto
    /\ (r_pc = "returned" /\ r_op = "with_parity") =>
          LET same == {o \in with_parity_outcomes :
                          /\ o.len = Len(r_arg.out)
                          /\ o.desired = r_arg.desired
                          /\ o.ret = r_ret}
          IN  /\ Cardinality(same) = 2
              /\ \E o \in same : o.out = r_arg.out
              /\ \E o \in same : parity(o.out) # r_arg.desired

\* the even permutation <<1, 2, 0>> was returned for the odd shuffle
\* <<0, 2, 1>>; the shuffle <<1, 2, 0>> would have given it too
C29_Witness ==
    /\ r_pc = "returned" /\ r_op = "with_parity"
    /\ r_arg = [out |-> <<0, 2, 1>>, desired |-> "Even"]
    /\ r_ret = <<1, 2, 0>>
    /\ [len |-> 3, desired |-> "Even", out |-> <<1, 2, 0>>, ret |-> <<1, 2, 0>>]
          \in with_parity_outcomes

----------------------------------------------------------------------------
(* DinoCube::available_moves against the moves of the Move type *)

\* enum Dir
DinoCube_Dir == {"UBL", "UBR", "DFL", "DFR", "DBL", "DBR", "DBLw", "DBRw"}

\* every value of Move(Dir, CornerTwistAmt)
DinoCube_Move == {<<dir, amt>> : dir \in DinoCube_Dir, amt \in {"Cw", "Ccw"}}

\* C30: DinoCube::available_moves yields each of the 16 moves (the 8 twist
\* directions, each Cw and Ccw) exactly once, so that every move apply and
\* is_redundant handle is offered.
C30_AllMovesOffered ==
    (m_pz.kind = "DinoCube" /\ m_pc = "applied") =>
        LET offered == AvailableMoves(m_pz, m_s)
        IN  /\ Len(offered) = 16
            /\ \A mv \in DinoCube_Move :
                  Cardinality({i \in DOMAIN offered : offered[i] = mv}) = 1

----------------------------------------------------------------------------
(* redi_cube.rs: RediHeuristic on the states near the solved RediCube *)

\* the states of RediCube that the model visits
RediCube_near == Within(Puzzle("RediCube"), {RediCube_solved}, RediNearDepth)

\* bounded_cache::<RediCube>(D) for D in 0..=RediCacheDepth, each built once
RediCube_caches == bounded_caches(Puzzle("RediCube"), RediCacheDepth, <<>>)

\* redi_cube::make_heuristic.  main.rs builds it 8 and 7 deep; the depth is
\* a parameter here.
RediCube_make_heuristic(max_depth) ==
    [kind |-> "RediHeuristic", bounded_cache |-> RediCube_caches[max_depth + 1]]

\* <RediHeuristic as Heuristic<RediCube>>::estimated_remaining_cost
RediHeuristic_estimated_remaining_cost(h, t) ==
    LET key == RediCube_uniq_key(t)
    IN  IF key \in DOMAIN h.bounded_cache.stored THEN h.bounded_cache.stored[key]
        ELSE usize_max(h.bounded_cache.fallback_depth, dist_heuristic(t))

RediInit ==
    /\ puzzle = Puzzle("RediCube")
    /\ heuristic = no_heuristic
    /\ cache_depth = 0
    /\ input = RediCube_solved
    /\ origin = "given"
    /\ fuel = 0
    /\ passes = <<>>
    /\ result = [tag |-> "none"]
    /\ scramble = <<>>
    /\ rng = NoRng
    /\ pc = "setup"
    /\ EnumIdle
    /\ MoveIdle
    /\ RandIdle
    /\ DfsIdle
    /\ BulkIdle

\* make_heuristic(max_depth)
RediMakeHeuristic ==
    /\ pc = "setup"
    /\ \E max_depth \in 0..RediCacheDepth :
          /\ heuristic' = RediCube_make_heuristic(max_depth)
          /\ cache_depth' = max_depth
    /\ pc' = "ready"
    /\ UNCHANGED <<puzzle, input, origin, fuel, passes, result, scramble, rng>>

\* apply(m), for a move that stays among the states the model visits
RediTwist ==
    /\ pc = "ready"
    /\ \E i \in 1..Len(RediCube_available_moves) :
          /\ RediCube_apply(input, RediCube_available_moves[i]) \in RediCube_near
          /\ input' = RediCube_apply(input, RediCube_available_moves[i])
          /\ scramble' = <<RediCube_available_moves[i]>>
    /\ UNCHANGED <<puzzle, heuristic, cache_depth, origin, fuel, passes, result, rng, pc>>

\* heuristic.estimated_remaining_cost(&input)
RediEstimate ==
    /\ pc = "ready"
    /\ result' = [tag |-> "cost",
                  cost |-> RediHeuristic_estimated_remaining_cost(heuristic, input)]
    /\ pc' = "estimated"
    /\ UNCHANGED <<puzzle, heuristic, cache_depth, input, origin, fuel, passes, scramble, rng>>

RediNext ==
    (RediMakeHeuristic \/ RediTwist \/ RediEstimate)
    /\ UNCHANGED <<enumVars, moveVars, randVars, bulkVars, dfsVars>>

SpecRedi == RediInit /\ [][RediNext]_vars

\* C31: dist_heuristic never answers more than the number of moves that
\* solve the state, for every state reached from solved (those within two
\* moves among them), and so neither does RediHeuristic, which answers
\* max(fallback depth, dist_heuristic) for a state outside its cache.
C31_DistHeuristicAdmissible ==
    pc = "estimated"
    => /\ dist_heuristic(input) <= Distance(puzzle, input)
       /\ result.cost <= Distance(puzzle, input)

----------------------------------------------------------------------------
(* redi_cube.rs: is_redundant against apply *)

\* the moves of RediCube, as a set
RediCube_moves == {RediCube_available_moves[i] : i \in DOMAIN RediCube_available_moves}

\* C32: when RediCube::is_redundant(a, b) holds for moves on two different
\* corners, b after a gives the state a after b gives, whatever the state,
\* and is_redundant(b, a) is false; when it holds for two moves on one
\* corner, b after a gives the state back or the state one move on that
\* corner gives.  The dfs therefore skips no last-next pair in both orders.
C32_RedundantMovesCommute ==
    (m_pc = "applied" /\ m_pz.kind = "RediCube")
    => \A b \in RediCube_moves :
          RediCube_is_redundant(m_move, b)
          => IF b[1] # m_move[1]
             THEN /\ RediCube_apply(m_after, b)
                        = RediCube_apply(RediCube_apply(m_s, b), m_move)
                  /\ ~RediCube_is_redundant(b, m_move)
             ELSE \/ RediCube_apply(m_after, b) = m_s
                  \/ \E c \in RediCube_moves :
                        /\ c[1] = m_move[1]
                        /\ RediCube_apply(m_after, b) = RediCube_apply(m_s, c)

\* DBL(Cw) applied to a scrambled state; UFR(Ccw) is then redundant, moves
\* the cube, and gives the same state before DBL(Cw) as after it
C32_Witness ==
    /\ m_pc = "applied"
    /\ m_pz.kind = "RediCube"
    /\ m_depth = MoveWalkDepth
    /\ m_s # RediCube_solved
    /\ m_move = <<"DBL", "Cw">>
    /\ RediCube_is_redundant(m_move, <<"UFR", "Ccw">>)
    /\ RediCube_apply(m_after, <<"UFR", "Ccw">>) # m_after
    /\ RediCube_apply(m_after, <<"UFR", "Ccw">>)
          = RediCube_apply(RediCube_apply(m_s, <<"UFR", "Ccw">>), m_move)
    /\ RediCube_apply(m_after, <<"DBL", "Cw">>) = RediCube_apply(m_s, <<"DBL", "Ccw">>)

----------------------------------------------------------------------------
(* main.rs, configuration_depth: the two models of the 1x3x3 floppy *)

\* what enumerate_state_space::<Floppy1x3x3>() returns
Floppy1x3x3_histogram ==
    enumerate_state_space_started(Puzzle("Floppy1x3x3"), <<Floppy1x3x3_solved>>)

\* what enumerate_state_space::<Floppy1xMxN<1, 1>>() returns
BigFloppy1x3x3_histogram ==
    enumerate_state_space_started(Floppy1xMxN(1, 1), <<Floppy1xMxN_solved(1, 1)>>)

\* C33: enumerate_state_space::<Floppy1xMxN<1, 1>>() returns the histogram
\* that enumerate_state_space::<Floppy1x3x3>() returns, depth by depth, and
\* so the same total number of configurations.
C33_FloppyModelsAgree ==
    /\ (e_pc = "returned" /\ e_pz = Floppy1xMxN(1, 1))
          => /\ counts = Floppy1x3x3_histogram
             /\ SumCounts(counts) = SumCounts(Floppy1x3x3_histogram)
    /\ (e_pc = "returned" /\ e_pz = Puzzle("Floppy1x3x3"))
          => /\ counts = BigFloppy1x3x3_histogram
             /\ SumCounts(counts) = SumCounts(BigFloppy1x3x3_histogram)

\* the enumeration of Floppy1xMxN<1, 1> has returned: 192 configurations,
\* the deepest eight moves away
C33_Witness ==
    /\ e_pc = "returned"
    /\ e_pz = Floppy1xMxN(1, 1)
    /\ DOMAIN counts = 0..8
    /\ counts[4] = 53
    /\ SumCounts(counts) = 192

----------------------------------------------------------------------------
(* floppy_1xnxn.rs: u2 and r2 on Floppy1xMxN<1, 1> and Floppy1xMxN<1, 2> *)

\* every value of the type Floppy1xMxN<H, W> whose corners are all there
Floppy1xMxN_values(H, W) ==
    {[ul |-> c[1], ur |-> c[2], dr |-> c[3], centers |-> ce,
      left_edge_pos |-> lp, left_edge_orr |-> lo,
      right_edge_pos |-> rp, right_edge_orr |-> ro,
      top_edge_pos |-> tp, top_edge_orr |-> to,
      bot_edge_pos |-> bp, bot_edge_orr |-> bo] :
        c \in {q \in [1..3 -> {"UL", "UR", "DR"}] : Range(q) = {"UL", "UR", "DR"}},
        ce \in [1..H -> [1..W -> BOOLEAN]],
        lp \in [1..H -> BOOLEAN], lo \in [1..H -> BOOLEAN],
        rp \in [1..H -> BOOLEAN], ro \in [1..H -> BOOLEAN],
        tp \in [1..W -> BOOLEAN], to \in [1..W -> BOOLEAN],
        bp \in [1..W -> BOOLEAN], bo \in [1..W -> BOOLEAN]}

\* Floppy1xMxN<1, 1> starts at any value, Floppy1xMxN<1, 2> at solved()
FloppyInit ==
    /\ m_pz \in {Floppy1xMxN(1, 1), Floppy1xMxN(1, 2)}
    /\ m_s \in IF m_pz.W = 1 THEN Floppy1xMxN_values(1, 1)
               ELSE {Floppy1xMxN_solved(m_pz.H, m_pz.W)}
    /\ m_move = <<>>
    /\ m_after = 0
    /\ m_back = 0
    /\ m_depth = 0
    /\ m_pc = "at"
    /\ EnumIdle
    /\ SolveIdle
    /\ RandIdle
    /\ DfsIdle
    /\ BulkIdle

\* the next move is applied to the result of this one, however far from solved
FloppyOn ==
    /\ m_pc = "reversed"
    /\ m_s' = m_after
    /\ m_move' = <<>>
    /\ m_after' = 0
    /\ m_back' = 0
    /\ m_pc' = "at"
    /\ UNCHANGED <<m_pz, m_depth>>

FloppyNext ==
    (MoveApply \/ MoveReverse \/ FloppyOn)
    /\ UNCHANGED <<enumVars, solveVars, randVars, bulkVars, dfsVars>>

SpecFloppy == FloppyInit /\ [][FloppyNext]_vars

\* what the claim says of U2(y): before and after
Floppy1xMxN_u2_frame(H, W, y, s, t) ==
    /\ t.ul = s.ur /\ t.ur = s.ul /\ t.dr = s.dr
    /\ \A x \in 1..W : /\ t.top_edge_pos[x] = s.top_edge_pos[W + 1 - x]
                       /\ t.top_edge_orr[x] = ~s.top_edge_orr[W + 1 - x]
    /\ t.bot_edge_pos = s.bot_edge_pos /\ t.bot_edge_orr = s.bot_edge_orr
    /\ \A r \in 1..H :
          IF r <= y
          THEN /\ t.left_edge_pos[r] = ~s.right_edge_pos[r]
               /\ t.right_edge_pos[r] = ~s.left_edge_pos[r]
               /\ t.left_edge_orr[r] = ~s.right_edge_orr[r]
               /\ t.right_edge_orr[r] = ~s.left_edge_orr[r]
               /\ \A x \in 1..W : t.centers[r][x] = ~s.centers[r][W + 1 - x]
          ELSE /\ t.left_edge_pos[r] = s.left_edge_pos[r]
               /\ t.right_edge_pos[r] = s.right_edge_pos[r]
               /\ t.left_edge_orr[r] = s.left_edge_orr[r]
               /\ t.right_edge_orr[r] = s.right_edge_orr[r]
               /\ t.centers[r] = s.centers[r]

\* what the claim says of R2(x): before and after
Floppy1xMxN_r2_frame(H, W, x, s, t) ==
    /\ t.ur = s.dr /\ t.dr = s.ur /\ t.ul = s.ul
    /\ \A r \in 1..H : /\ t.right_edge_pos[r] = s.right_edge_pos[H + 1 - r]
                       /\ t.right_edge_orr[r] = ~s.right_edge_orr[H + 1 - r]
    /\ t.left_edge_pos = s.left_edge_pos /\ t.left_edge_orr = s.left_edge_orr
    /\ \A c \in 1..W :
          IF c <= x
          THEN /\ t.top_edge_pos[c] = ~s.bot_edge_pos[c]
               /\ t.bot_edge_pos[c] = ~s.top_edge_pos[c]
               /\ t.top_edge_orr[c] = ~s.bot_edge_orr[c]
               /\ t.bot_edge_orr[c] = ~s.top_edge_orr[c]
               /\ \A r \in 1..H : t.centers[r][c] = ~s.centers[H + 1 - r][c]
          ELSE /\ t.top_edge_pos[c] = s.top_edge_pos[c]
               /\ t.bot_edge_pos[c] = s.bot_edge_pos[c]
               /\ t.top_edge_orr[c] = s.top_edge_orr[c]
               /\ t.bot_edge_orr[c] = s.bot_edge_orr[c]
               /\ \A r \in 1..H : t.centers[r][c] = s.centers[r][c]

\* C34: on Floppy1xMxN<1, 1> and <1, 2>, U2(y) exchanges ul and ur, reverses
\* the top edge row and negates its orientations, exchanges and negates the
\* left and right edge flags of the first y center rows and reverses and
\* negates those rows, and leaves dr, the bottom edges and the other rows;
\* R2(x) does so for ur and dr, the right edge column and the first x center
\* columns, and leaves ul, the left edges and the other columns; applying
\* the same move again gives the state back.
C34_FloppyTurns ==
    (m_pc = "applied" /\ m_pz.kind = "Floppy1xMxN")
    => /\ m_move[1] = "U2"
             => Floppy1xMxN_u2_frame(m_pz.H, m_pz.W, m_move[2], m_s, m_after)
       /\ m_move[1] = "R2"
             => Floppy1xMxN_r2_frame(m_pz.H, m_pz.W, m_move[2], m_s, m_after)
       /\ Floppy1xMxN_apply(m_after, m_move) = m_s

\* R2(1) applied to a state of Floppy1xMxN<1, 2> that is not the solved one
\* and whose two center columns differ
C34_Witness ==
    /\ m_pc = "applied"
    /\ m_pz = Floppy1xMxN(1, 2)
    /\ m_move = <<"R2", 1>>
    /\ m_s # Floppy1xMxN_solved(1, 2)
    /\ m_s.centers[1][1] # m_s.centers[1][2]
    /\ m_after.right_edge_orr[1] # m_s.right_edge_orr[1]
    /\ m_after.centers[1][1] # m_s.centers[1][1]
    /\ m_after.centers[1][2] = m_s.centers[1][2]

----------------------------------------------------------------------------
(* square_one_shape.rs: the shapes that neighbors leads to from start() *)

\* the move behind the i-th call of to_add in neighbors
SquareOneShape_neighbor_move(i) ==
    IF i = 23 THEN <<"Slice">>
    ELSE IF i % 2 = 1 THEN <<"U", (i + 1) \div 2>>
    ELSE <<"D", i \div 2>>

SquareInit ==
    /\ m_pz = Puzzle("SquareOneShape")
    /\ m_s = SquareOneShape_start
    /\ m_move = <<>>
    /\ m_after = 0
    /\ m_back = 0
    /\ m_depth = 0
    /\ m_pc = "at"
    /\ EnumIdle
    /\ SolveIdle
    /\ RandIdle
    /\ DfsIdle
    /\ BulkIdle

\* one call of to_add in neighbors
SquareNeighbor ==
    /\ m_pc = "at"
    /\ LET found == SquareOneShape_neighbors(m_s)
       IN  \E i \in DOMAIN found :
              /\ m_move' = SquareOneShape_neighbor_move(i)
              /\ m_after' = found[i]
    /\ m_pc' = "applied"
    /\ UNCHANGED <<m_pz, m_s, m_back, m_depth>>

\* the state handed to to_add is taken up in its turn
SquareOn ==
    /\ m_pc = "applied"
    /\ m_s' = m_after
    /\ m_move' = <<>>
    /\ m_after' = 0
    /\ m_pc' = "at"
    /\ UNCHANGED <<m_pz, m_back, m_depth>>

SquareNext ==
    (SquareNeighbor \/ SquareOn)
    /\ UNCHANGED <<enumVars, solveVars, randVars, bulkVars, dfsVars>>

SpecSquare == SquareInit /\ [][SquareNext]_vars

\* how many places of a layer hold the piecelet p
SquareOneShape_count(layer, p) == Cardinality({i \in DOMAIN layer : layer[i] = p})

\* a layer of twelve piecelets whose corners are whole, in cyclic order
SquareOneShape_whole_corners(layer) ==
    /\ Len(layer) = 12
    /\ \A i \in 1..12 :
          /\ layer[i] = "StartCorner" => layer[(i % 12) + 1] = "EndCorner"
          /\ layer[i] = "EndCorner" => layer[((i + 10) % 12) + 1] = "StartCorner"

\* both layers are made of whole corners, eight in all, and eight edges
SquareOneShape_well_formed(s) ==
    /\ SquareOneShape_whole_corners(s.top)
    /\ SquareOneShape_whole_corners(s.bot)
    /\ SquareOneShape_count(s.top, "StartCorner")
          + SquareOneShape_count(s.bot, "StartCorner") = 8
    /\ SquareOneShape_count(s.top, "EndCorner")
          + SquareOneShape_count(s.bot, "EndCorner") = 8
    /\ SquareOneShape_count(s.top, "Edge") + SquareOneShape_count(s.bot, "Edge") = 8

\* C35: in every SquareOneShape state that neighbors leads to from start()
\* (u and d by 1..=11, slice when can_slice holds), each layer has twelve
\* piecelets, every StartCorner is followed in cyclic order by an EndCorner
\* and every EndCorner preceded by a StartCorner, and the layers together
\* hold eight corners and eight edges.
C35_ShapesWellFormed ==
    m_pz.kind = "SquareOneShape"
    => /\ m_pc = "at" => SquareOneShape_well_formed(m_s)
       /\ m_pc = "applied" => SquareOneShape_well_formed(m_after)

\* a slice has left five corners in the top layer
C35_Witness ==
    /\ m_pz.kind = "SquareOneShape"
    /\ m_pc = "applied"
    /\ m_move = <<"Slice">>
    /\ SquareOneShape_count(m_s.top, "StartCorner") = 4
    /\ SquareOneShape_count(m_after.top, "StartCorner") = 5
    /\ SquareOneShape_well_formed(m_after)

\* C36: u(amt) takes the piecelet at place i of the top layer to place
\* (i + amt) mod 12 and leaves the bottom layer, d(amt) does so with the
\* bottom layer and leaves the top one, and slice exchanges top[6 + i] with
\* bot[i] for i in 0..6 and leaves top[0..6] and bot[6..12], so that a second
\* slice gives the state back.
C36_ShapeMoves ==
    (m_pz.kind = "SquareOneShape" /\ m_pc = "applied")
    => /\ m_move[1] = "U"
             => /\ m_after.bot = m_s.bot
                /\ \A i \in 0..11 :
                      m_after.top[((i + m_move[2]) % 12) + 1] = m_s.top[i + 1]
       /\ m_move[1] = "D"
             => /\ m_after.top = m_s.top
                /\ \A i \in 0..11 :
                      m_after.bot[((i + m_move[2]) % 12) + 1] = m_s.bot[i + 1]
       /\ m_move[1] = "Slice"
             => /\ \A i \in 0..5 :
                      /\ m_after.top[7 + i] = m_s.bot[1 + i]
                      /\ m_after.bot[1 + i] = m_s.top[7 + i]
                      /\ m_after.top[1 + i] = m_s.top[1 + i]
                      /\ m_after.bot[7 + i] = m_s.bot[7 + i]
                /\ SquareOneShape_slice(m_after) = m_s

\* u(5) on a top layer of six corners, which it changes
C36_Witness ==
    /\ m_pz.kind = "SquareOneShape"
    /\ m_pc = "applied"
    /\ m_move = <<"U", 5>>
    /\ SquareOneShape_count(m_s.top, "StartCorner") = 6
    /\ m_after.top # m_s.top
    /\ m_after.top[6] = m_s.top[1]
    /\ m_after.bot = m_s.bot

----------------------------------------------------------------------------
(* mirror_pocket_cube.rs; a state is [pos, orr], each a record of the seven *)
(* corners ful, fur, bur, fdl, fdr, bdl, bdr                               *)

\* enum Cubelet and enum Orientation, in declaration order
MirrorPocketCube_Cubelets == <<"Narrow", "Wide", "BigCube">>

MirrorPocketCube_Orientations == <<"Normal", "CW", "CCW", "Fixed">>

\* Orientation::cw
Orientation_cw(o) ==
    CASE o = "Normal" -> "CW" [] o = "CW" -> "CCW" [] o = "CCW" -> "Normal"
      [] o = "Fixed" -> "Fixed"

\* Orientation::ccw
Orientation_ccw(o) ==
    CASE o = "Normal" -> "CCW" [] o = "CCW" -> "CW" [] o = "CW" -> "Normal"
      [] o = "Fixed" -> "Fixed"

\* PosState::twist and OrientationState::twist: the same fields move
MirrorPocketCube_ring_twist(c) ==
    [ful |-> c.bur, bur |-> c.bdl, bdl |-> c.ful,
     fur |-> c.bdr, bdr |-> c.fdl, fdl |-> c.fur,
     fdr |-> c.fdr]

\* <PosState as CubeState>::start
PosState_start ==
    [ful |-> "Narrow", fur |-> "Wide", bur |-> "Narrow", fdl |-> "Wide",
     fdr |-> "BigCube", bdl |-> "Narrow", bdr |-> "Wide"]

\* <PosState as CubeState>::r, f, d
PosState_turn(c, face) ==
    CASE face = "r" -> [c EXCEPT !.fur = c.fdr, !.fdr = c.bdr, !.bdr = c.bur, !.bur = c.fur]
      [] face = "f" -> [c EXCEPT !.fur = c.ful, !.ful = c.fdl, !.fdl = c.fdr, !.fdr = c.fur]
      [] face = "d" -> [c EXCEPT !.fdr = c.fdl, !.fdl = c.bdl, !.bdl = c.bdr, !.bdr = c.fdr]

\* <OrientationState as CubeState>::start
OrientationState_start ==
    [ful |-> "Normal", fur |-> "Normal", bur |-> "Normal", fdl |-> "Normal",
     fdr |-> "Fixed", bdl |-> "Normal", bdr |-> "Normal"]

\* <OrientationState as CubeState>::r, f, d
OrientationState_turn(c, face) ==
    CASE face = "r" -> [c EXCEPT !.fur = Orientation_ccw(c.fdr), !.fdr = Orientation_cw(c.bdr),
                                 !.bdr = Orientation_ccw(c.bur), !.bur = Orientation_cw(c.fur)]
      [] face = "f" -> [c EXCEPT !.fur = Orientation_cw(c.ful), !.ful = Orientation_ccw(c.fdl),
                                 !.fdl = Orientation_cw(c.fdr), !.fdr = Orientation_ccw(c.fur)]
      [] face = "d" -> [c EXCEPT !.fdr = c.fdl, !.fdl = c.bdl, !.bdl = c.bdr, !.bdr = c.fdr]

\* <MirrorPocketCube as CubeState>::start
MirrorPocketCube_start == [pos |-> PosState_start, orr |-> OrientationState_start]

\* <MirrorPocketCube as CubeState>::r, f, d
MirrorPocketCube_turn(s, face) ==
    [pos |-> PosState_turn(s.pos, face), orr |-> OrientationState_turn(s.orr, face)]

\* MirrorPocketCube::twist
MirrorPocketCube_twist(s) ==
    [pos |-> MirrorPocketCube_ring_twist(s.pos), orr |-> MirrorPocketCube_ring_twist(s.orr)]

\* <MirrorPocketCube as State>::neighbors, in call order
MirrorPocketCube_neighbors(s) ==
    LET r1 == MirrorPocketCube_turn(s, "r")
        r2 == MirrorPocketCube_turn(r1, "r")
        f1 == MirrorPocketCube_turn(s, "f")
        f2 == MirrorPocketCube_turn(f1, "f")
        d1 == MirrorPocketCube_turn(s, "d")
        d2 == MirrorPocketCube_turn(d1, "d")
    IN  <<r1, r2, MirrorPocketCube_turn(r2, "r"),
          f1, f2, MirrorPocketCube_turn(f2, "f"),
          d1, d2, MirrorPocketCube_turn(d2, "d")>>

\* the fields of a state in declaration order, each by its discriminant:
\* what the derived Ord compares, first to last
MirrorPocketCube_ord_key(s) ==
    LET p(c) == Discriminant(MirrorPocketCube_Cubelets, c)
        o(c) == Discriminant(MirrorPocketCube_Orientations, c)
    IN  <<p(s.pos.ful), p(s.pos.fur), p(s.pos.bur), p(s.pos.fdl), p(s.pos.fdr),
          p(s.pos.bdl), p(s.pos.bdr),
          o(s.orr.ful), o(s.orr.fur), o(s.orr.bur), o(s.orr.fdl), o(s.orr.fdr),
          o(s.orr.bdl), o(s.orr.bdr)>>

\* x <= y for sequences compared from the i-th entry on
RECURSIVE Lex_le(_, _, _)
Lex_le(x, y, i) ==
    IF i > Len(x) THEN TRUE
    ELSE IF x[i] < y[i] THEN TRUE
    ELSE IF x[i] > y[i] THEN FALSE
    ELSE Lex_le(x, y, i + 1)

\* the derived <= of MirrorPocketCube
MirrorPocketCube_le(a, b) ==
    Lex_le(MirrorPocketCube_ord_key(a), MirrorPocketCube_ord_key(b), 1)

\* should_count_as_config that compares with the first twist only
MirrorPocketCube_should_count_first_only(s) ==
    MirrorPocketCube_le(s, MirrorPocketCube_twist(s))

\* <MirrorPocketCube as State>::should_count_as_config
MirrorPocketCube_should_count_as_config(s) ==
    LET a == MirrorPocketCube_twist(s)
        b == MirrorPocketCube_twist(a)
    IN  MirrorPocketCube_le(s, a) /\ MirrorPocketCube_le(s, b)

\* <MirrorPocketCube as State>::uniq_key.  The impl in mirror_pocket_cube.rs
\* gives neighbors, start and should_count_as_config only; the key is the
\* state itself, for which Hash and Eq are derived, so that two states
\* have one key exactly when they are equal.
MirrorPocketCube_uniq_key(s) == s

\* the states that twist() takes to each other
MirrorPocketCube_class(s) ==
    {s, MirrorPocketCube_twist(s), MirrorPocketCube_twist(MirrorPocketCube_twist(s))}

\* a state is taken up to look at its twists
MirrorWalkInit ==
    /\ m_pz = Puzzle("MirrorPocketCube")
    /\ m_s = MirrorPocketCube_start
    /\ m_move = <<>>
    /\ m_after = 0
    /\ m_back = 0
    /\ m_depth = 0
    /\ m_pc = "at"
    /\ EnumIdle
    /\ SolveIdle
    /\ RandIdle
    /\ DfsIdle
    /\ BulkIdle

\* enumerate_state_space::<MirrorPocketCube>(), at the head of loop. The
\* two Vecs are held as the sets of their states: a state that comes a
\* second time fails all_seen.insert and is passed over, and the order of a
\* Vec does not enter counts.
MirrorEnumBegin ==
    /\ e_pz = Puzzle("MirrorPocketCube")
    /\ starts = <<MirrorPocketCube_start>>
    /\ to_process = {MirrorPocketCube_start}
    /\ next_stage = {}
    /\ iter_pos = 0
    /\ all_seen = {}
    /\ counts = <<>>
    /\ next_distance = 0
    /\ this_stage_new_configs = 0
    /\ e_pc = "loop"
    /\ e_forder = "source"
    /\ e_norder = "source"
    /\ expanded = <<>>
    /\ SolveIdle
    /\ MoveIdle
    /\ RandIdle
    /\ DfsIdle
    /\ BulkIdle

MirrorInit == MirrorWalkInit \/ MirrorEnumBegin

\* one call of to_add in neighbors, taken up in its turn
MirrorNeighbor ==
    /\ m_pc = "at"
    /\ \E i \in 1..9 : m_s' = MirrorPocketCube_neighbors(m_s)[i]
    /\ UNCHANGED <<m_pz, m_move, m_after, m_back, m_depth, m_pc, enumVars>>

\* let a = self.twist()
MirrorTwist ==
    /\ m_pc = "at"
    /\ m_after' = MirrorPocketCube_twist(m_s)
    /\ m_pc' = "twisted"
    /\ UNCHANGED <<m_pz, m_s, m_move, m_back, m_depth, enumVars>>

\* let b = a.twist()
MirrorTwistAgain ==
    /\ m_pc = "twisted"
    /\ m_back' = MirrorPocketCube_twist(m_after)
    /\ m_pc' = "twisted twice"
    /\ UNCHANGED <<m_pz, m_s, m_move, m_after, m_depth, enumVars>>

\* should_count_as_config of the state and of its two twists
MirrorCount ==
    /\ m_pc = "twisted twice"
    /\ m_move' = <<MirrorPocketCube_should_count_as_config(m_s),
                   MirrorPocketCube_should_count_as_config(m_after),
                   MirrorPocketCube_should_count_as_config(m_back)>>
    /\ m_pc' = "counted"
    /\ UNCHANGED <<m_pz, m_s, m_after, m_back, m_depth, enumVars>>

\* one pass of loop in enumerate_state_space_started: the states of
\* to_process whose key is new are inserted, those that should count are
\* counted and the neighbours of all of them pushed on next_stage; then
\* either break, or the count is recorded and the Vecs are swapped
MirrorStage ==
    /\ e_pc = "loop"
    /\ \E fresh \in {{s \in to_process : MirrorPocketCube_uniq_key(s) \notin all_seen}} :
         \E n \in {Cardinality({s \in fresh :
                                  MirrorPocketCube_should_count_as_config(s)})} :
           \E pushed \in {{MirrorPocketCube_neighbors(s)[i] : s \in fresh, i \in 1..9}} :
              /\ all_seen' = all_seen \cup {MirrorPocketCube_uniq_key(s) : s \in fresh}
              /\ this_stage_new_configs' = n
              /\ IF n = 0
                 THEN /\ next_stage' = pushed
                      /\ e_pc' = "break"
                      /\ UNCHANGED <<counts, next_distance, to_process>>
                 ELSE /\ counts' = [d \in DOMAIN counts \cup {next_distance} |->
                                       IF d = next_distance THEN n ELSE counts[d]]
                      /\ next_distance' = next_distance + 1
                      /\ to_process' = pushed
                      /\ next_stage' = {}
                      /\ e_pc' = "loop"
    /\ UNCHANGED <<e_pz, starts, iter_pos, e_forder, e_norder, expanded, moveVars>>

\* (elapsed, counts) is returned: the locals but counts are dropped
MirrorReturn ==
    /\ e_pc = "break"
    /\ to_process' = {}
    /\ next_stage' = {}
    /\ all_seen' = {}
    /\ e_pc' = "returned"
    /\ UNCHANGED <<e_pz, starts, iter_pos, counts, next_distance,
                   this_stage_new_configs, e_forder, e_norder, expanded, moveVars>>

MirrorNext ==
    (MirrorNeighbor \/ MirrorTwist \/ MirrorTwistAgain \/ MirrorCount
        \/ MirrorStage \/ MirrorReturn)
    /\ UNCHANGED <<solveVars, randVars, bulkVars, dfsVars>>

SpecMirror == MirrorInit /\ [][MirrorNext]_vars

\* C37: three twists give a MirrorPocketCube state back, and of the
\* distinct states among s, twist(s) and twist(twist(s)) exactly one has
\* should_count_as_config true, the least under the derived ordering; and
\* when enumerate_state_space::<MirrorPocketCube>() leaves its loop, it has
\* inserted start() and every neighbour of a state it inserted, so every
\* state there is, with each state its twists, one state of each class is
\* one that counts, and the values of the histogram add up to the number of
\* classes (a key in all_seen is the state it is the key of).
C37_OneCountedPerClass ==
    /\ m_pc = "counted"
       => LET class == {<<m_s, m_move[1]>>, <<m_after, m_move[2]>>, <<m_back, m_move[3]>>}
          IN  /\ MirrorPocketCube_twist(m_back) = m_s
              /\ Cardinality({c \in class : c[2]}) = 1
              /\ \A c \in class :
                    c[2] <=> \A d \in class : MirrorPocketCube_le(c[1], d[1])
    /\ e_pc = "break"
       => /\ MirrorPocketCube_start \in all_seen
          /\ \A s \in all_seen :
                /\ Range(MirrorPocketCube_neighbors(s)) \subseteq all_seen
                /\ MirrorPocketCube_class(s) \subseteq all_seen
                /\ MirrorPocketCube_twist(MirrorPocketCube_twist(
                       MirrorPocketCube_twist(s))) = s
                /\ Cardinality({c \in MirrorPocketCube_class(s) :
                                  MirrorPocketCube_should_count_as_config(c)}) = 1
          /\ SumCounts(counts)
                = Cardinality({MirrorPocketCube_class(s) : s \in all_seen})

\* a class of three states whose counted member is the second twist
C37_Witness ==
    /\ m_pc = "counted"
    /\ m_after # m_s
    /\ m_back # m_s
    /\ m_back # m_after
    /\ m_move = <<FALSE, FALSE, TRUE>>
    /\ MirrorPocketCube_le(m_back, m_s)
    /\ MirrorPocketCube_le(m_back, m_after)

----------------------------------------------------------------------------
(* scrambles.rs: the values of the counter that the calls of the closure see *)

\* C38: under every interleaving of the calls of the closure, the values
\* c = fetch_add(1) + 1 seen by the calls whose solve succeeded differ from
\* each other and lie in 1..=num_scrambles, so that num_scrambles - c is
\* never negative and no value, a multiple of 1000 among them, is reported
\* by two calls; when every solve succeeded the counter ends at
\* num_scrambles.
C38_CounterValuesDistinct ==
    b_pc \in {"map", "returned"}
    => /\ \A i \in DOMAIN b_c : \A j \in DOMAIN b_c : i # j => b_c[i] # b_c[j]
       /\ \A i \in DOMAIN b_c : b_c[i] \in 1..b_n /\ b_n - b_c[i] >= 0
       /\ \A i \in DOMAIN b_c : b_task[i] \in {"counted", "ok"}
       /\ \A k \in DOMAIN b_stdout : \A l \in DOMAIN b_stdout :
             k # l => b_stdout[k] # b_stdout[l]
       /\ (b_pc = "returned" /\ b_ret.tag = "Ok") => completed = b_n

\* every solve succeeded; the call on the first state saw the last value of
\* the counter and the call on the last state an earlier one
C38_Witness ==
    /\ b_pc = "returned"
    /\ b_n = MaxScrambles
    /\ b_ret.tag = "Ok"
    /\ completed = b_n
    /\ b_c[1] = b_n
    /\ b_c[b_n] < b_n
    /\ b_n - b_c[1] = 0

----------------------------------------------------------------------------
(* bandaged_3x3x3_1x2x3.rs, tests::count_permutations: the arrangements of
   the six movable corners reached from the start under r and u *)

\* the start of count_permutations: every corner in its own place
CornerPositionState_start ==
    [ufl |-> "UFL", ufr |-> "UFR", ubl |-> "UBL", ubr |-> "UBR",
     dfr |-> "DFR", dbr |-> "DBR"]

\* an r that cycles three corners and leaves ubr in place
CornerPositionState_r_three(p) ==
    [ufl |-> p.ufl, ubl |-> p.ubl,
     ufr |-> p.dfr, dfr |-> p.dbr, dbr |-> p.ufr, ubr |-> p.ubr]

\* tests::CornerPositionState::r
CornerPositionState_r(p) ==
    [ufl |-> p.ufl, ubl |-> p.ubl,
     ufr |-> p.dfr, dfr |-> p.dbr, dbr |-> p.ubr, ubr |-> p.ufr]

\* tests::CornerPositionState::u
CornerPositionState_u(p) ==
    [dbr |-> p.dbr, dfr |-> p.dfr,
     ufl |-> p.ufr, ufr |-> p.ubr, ubr |-> p.ubl, ubl |-> p.ufl]

\* the corner fields of a PositionState
Bandaged_corner_fields(p) ==
    [ufl |-> p.ufl, ufr |-> p.ufr, ubl |-> p.ubl, ubr |-> p.ubr,
     dfr |-> p.dfr, dbr |-> p.dbr]

\* let mut seen = HashSet::default(); to_process.push_back(start)
CornerInit ==
    /\ e_pz = Puzzle("none") /\ starts = <<>> /\ iter_pos = 0
    /\ next_stage = <<>> /\ counts = <<>> /\ next_distance = 0
    /\ this_stage_new_configs = 0
    /\ e_forder = "source" /\ e_norder = "source" /\ expanded = <<>>
    /\ all_seen = {}
    /\ to_process = <<CornerPositionState_start>>
    /\ e_pc = "loop"
    /\ SolveIdle /\ MoveIdle /\ RandIdle /\ BulkIdle /\ DfsIdle

\* one pass of the while let loop: pop_front, then seen.insert and push_back
\* of p.r() and of p.u()
CornerPop ==
    /\ e_pc = "loop"
    /\ to_process # <<>>
    /\ LET p == Head(to_process)
           r == CornerPositionState_r(p)
           u == CornerPositionState_u(p)
           seen_r == all_seen \cup {r}
           queue_r == IF r \in all_seen THEN Tail(to_process)
                      ELSE Append(Tail(to_process), r)
       IN  /\ all_seen' = seen_r \cup {u}
           /\ to_process' = IF u \in seen_r THEN queue_r ELSE Append(queue_r, u)
           /\ expanded' = Append(expanded, p)
    /\ UNCHANGED <<e_pz, starts, iter_pos, next_stage, counts, next_distance,
                   this_stage_new_configs, e_pc, e_forder, e_norder>>

\* pop_front returns None: the loop ends and seen.len() is taken
CornerDone ==
    /\ e_pc = "loop"
    /\ to_process = <<>>
    /\ e_pc' = "returned"
    /\ counts' = <<Cardinality(all_seen)>>
    /\ UNCHANGED <<e_pz, starts, to_process, iter_pos, next_stage, all_seen,
                   next_distance, this_stage_new_configs, e_forder, e_norder,
                   expanded>>

CornerNext ==
    (CornerPop \/ CornerDone)
    /\ UNCHANGED <<solveVars, moveVars, randVars, bulkVars, dfsVars>>

SpecCorners == CornerInit /\ [][CornerNext]_vars

\* C39: when the loop of count_permutations ends, seen holds exactly 120
\* arrangements of the six movable corners, the start among them; while it
\* runs, every arrangement seen is a permutation of the six corners, and
\* the r and u of the test move the corners as PositionState::r and
\* PositionState::u do.
C39_CornerArrangements ==
    /\ e_pc = "returned"
       => /\ counts = <<120>>
          /\ Cardinality(all_seen) = 120
          /\ CornerPositionState_start \in all_seen
          /\ \A p \in all_seen : CornerPositionState_r(p) \in all_seen
                                 /\ CornerPositionState_u(p) \in all_seen
    /\ e_pc \in {"loop", "returned"}
       => /\ Cardinality(all_seen) <= 120
          /\ \A p \in all_seen :
                {p.ufl, p.ufr, p.ubl, p.ubr, p.dfr, p.dbr}
                    = {"UFL", "UFR", "UBL", "UBR", "DFR", "DBR"}
    /\ (e_pc = "loop" /\ to_process # <<>>)
       => LET p == Head(to_process)
              full == [Bandaged_PositionState_solved EXCEPT
                          !.ufl = p.ufl, !.ufr = p.ufr, !.ubl = p.ubl,
                          !.ubr = p.ubr, !.dfr = p.dfr, !.dbr = p.dbr]
          IN  /\ Bandaged_corner_fields(Bandaged_PositionState_turn(full, "r"))
                    = CornerPositionState_r(p)
              /\ Bandaged_corner_fields(Bandaged_PositionState_turn(full, "u"))
                    = CornerPositionState_u(p)

\* the loop has ended with 120 arrangements seen, after 121 passes: the
\* start was popped first and once more after r or u led back to it
C39_Witness ==
    /\ e_pc = "returned"
    /\ to_process = <<>>
    /\ Cardinality(all_seen) = 120
    /\ Len(expanded) = 121
    /\ expanded[1] = CornerPositionState_start
    /\ \E i \in 2..Len(expanded) : expanded[i] = CornerPositionState_start

====
